---- MODULE Spec2Model ----
(***************************************************************************)
(* A model of the v5-memory decision engine: the scorer, the file-backed   *)
(* store, the V5MetaEngine write / recall / inject / turn operations, the  *)
(* tiered HierarchicalStorage and the MemoryCompressor.                    *)
(*                                                                         *)
(* Numbers: every score, dimension, threshold and probability is a fixed-  *)
(* point integer in units of 1/10000 (One = 1.0).  Time is in days.        *)
(* Text is kept as the set of whitespace-separated tokens it splits into,  *)
(* which is all the similarity and scoring code ever reads of it.          *)
(***************************************************************************)
EXTENDS Integers, Sequences, FiniteSets, TLC

VARIABLES
  store,            \* engine.store, the FileSystemStore the callers of the
                    \* engine assign to it: id -> record
  auditLog,         \* SecurityAuditor.logs, the sequence of logged actions
  platformAdapter,  \* V5MetaEngine.platformAdapter
  config,           \* V5MetaEngine.config
  imported,         \* how many records import has given an id to
  now,              \* Date.now(), in days
  last,             \* the call that just returned: its name, inputs, result
  hotCache,         \* HierarchicalStorage.hotCache: id -> record
  warmStore,        \* HierarchicalStorage.warmStore: id -> record
  coldStore,        \* HierarchicalStorage.coldStore: id -> record
  crec,             \* the record a MemoryCompressor caller holds
  writes,           \* the write calls that are under way: where each one stands
  backend,          \* the class of the store: "FileSystemStore" or "IndexedDBStore"
  experiment        \* the experiment an ExperimentLoop runs, and where run stands

engineVars == <<store, auditLog, platformAdapter, config, imported>>
tierVars == <<hotCache, warmStore, coldStore>>
vars == <<store, auditLog, platformAdapter, config, imported, now, last,
          hotCache, warmStore, coldStore, crec, writes, backend, experiment>>

-----------------------------------------------------------------------------
(* Bounds of the model *)

MaxId == 2          \* caller-supplied record ids are 1..MaxId
MaxTicks == 2       \* the clock advances at most this many times
TickDays == 20      \* days that pass at one advance of the clock
MaxAudit == 1       \* calls that log stop once the audit log is this long
MaxImport == 1      \* records imported over a run

-----------------------------------------------------------------------------
(* Fixed point *)

One == 10000

Min(a, b) == IF a < b THEN a ELSE b
Max(a, b) == IF a > b THEN a ELSE b

\* JS `x || d` on a number: 0 is falsy
OrDefault(x, d) == IF x = 0 THEN d ELSE x

-----------------------------------------------------------------------------
(* scorer.js *)

\* P = 1/(1+e^(-2*0.85*(x-0.5))) rounded to 4 decimals, for x = 0/1000 .. 1000/1000
V5Curve ==
  <<
     2994, 2998, 3001, 3005, 3009, 3012, 3016, 3019, 3023, 3027, 3030, 3034, 3037, 3041, 3044, 3048, 3052, 3055, 3059, 3063,
     3066, 3070, 3073, 3077, 3081, 3084, 3088, 3091, 3095, 3099, 3102, 3106, 3110, 3113, 3117, 3121, 3124, 3128, 3132, 3135,
     3139, 3143, 3146, 3150, 3154, 3157, 3161, 3165, 3168, 3172, 3176, 3179, 3183, 3187, 3190, 3194, 3198, 3201, 3205, 3209,
     3213, 3216, 3220, 3224, 3227, 3231, 3235, 3239, 3242, 3246, 3250, 3253, 3257, 3261, 3265, 3268, 3272, 3276, 3280, 3283,
     3287, 3291, 3295, 3298, 3302, 3306, 3310, 3313, 3317, 3321, 3325, 3329, 3332, 3336, 3340, 3344, 3347, 3351, 3355, 3359,
     3363, 3366, 3370, 3374, 3378, 3382, 3385, 3389, 3393, 3397, 3401, 3404, 3408, 3412, 3416, 3420, 3424, 3427, 3431, 3435,
     3439, 3443, 3447, 3450, 3454, 3458, 3462, 3466, 3470, 3474, 3477, 3481, 3485, 3489, 3493, 3497, 3501, 3504, 3508, 3512,
     3516, 3520, 3524, 3528, 3532, 3535, 3539, 3543, 3547, 3551, 3555, 3559, 3563, 3567, 3570, 3574, 3578, 3582, 3586, 3590,
     3594, 3598, 3602, 3606, 3610, 3614, 3617, 3621, 3625, 3629, 3633, 3637, 3641, 3645, 3649, 3653, 3657, 3661, 3665, 3669,
     3673, 3677, 3680, 3684, 3688, 3692, 3696, 3700, 3704, 3708, 3712, 3716, 3720, 3724, 3728, 3732, 3736, 3740, 3744, 3748,
     3752, 3756, 3760, 3764, 3768, 3772, 3776, 3780, 3784, 3788, 3792, 3796, 3800, 3804, 3808, 3812, 3816, 3820, 3824, 3828,
     3832, 3836, 3840, 3844, 3848, 3852, 3856, 3860, 3864, 3868, 3872, 3876, 3880, 3884, 3888, 3892, 3896, 3901, 3905, 3909,
     3913, 3917, 3921, 3925, 3929, 3933, 3937, 3941, 3945, 3949, 3953, 3957, 3961, 3965, 3969, 3974, 3978, 3982, 3986, 3990,
     3994, 3998, 4002, 4006, 4010, 4014, 4018, 4022, 4027, 4031, 4035, 4039, 4043, 4047, 4051, 4055, 4059, 4063, 4068, 4072,
     4076, 4080, 4084, 4088, 4092, 4096, 4100, 4105, 4109, 4113, 4117, 4121, 4125, 4129, 4133, 4137, 4142, 4146, 4150, 4154,
     4158, 4162, 4166, 4170, 4175, 4179, 4183, 4187, 4191, 4195, 4199, 4204, 4208, 4212, 4216, 4220, 4224, 4228, 4233, 4237,
     4241, 4245, 4249, 4253, 4258, 4262, 4266, 4270, 4274, 4278, 4282, 4287, 4291, 4295, 4299, 4303, 4307, 4312, 4316, 4320,
     4324, 4328, 4333, 4337, 4341, 4345, 4349, 4353, 4358, 4362, 4366, 4370, 4374, 4378, 4383, 4387, 4391, 4395, 4399, 4404,
     4408, 4412, 4416, 4420, 4425, 4429, 4433, 4437, 4441, 4446, 4450, 4454, 4458, 4462, 4467, 4471, 4475, 4479, 4483, 4488,
     4492, 4496, 4500, 4504, 4509, 4513, 4517, 4521, 4525, 4530, 4534, 4538, 4542, 4546, 4551, 4555, 4559, 4563, 4568, 4572,
     4576, 4580, 4584, 4589, 4593, 4597, 4601, 4606, 4610, 4614, 4618, 4622, 4627, 4631, 4635, 4639, 4644, 4648, 4652, 4656,
     4661, 4665, 4669, 4673, 4677, 4682, 4686, 4690, 4694, 4699, 4703, 4707, 4711, 4716, 4720, 4724, 4728, 4733, 4737, 4741,
     4745, 4749, 4754, 4758, 4762, 4766, 4771, 4775, 4779, 4783, 4788, 4792, 4796, 4800, 4805, 4809, 4813, 4817, 4822, 4826,
     4830, 4834, 4839, 4843, 4847, 4851, 4856, 4860, 4864, 4868, 4873, 4877, 4881, 4885, 4890, 4894, 4898, 4902, 4907, 4911,
     4915, 4919, 4924, 4928, 4932, 4936, 4941, 4945, 4949, 4953, 4958, 4962, 4966, 4970, 4975, 4979, 4983, 4987, 4992, 4996,
     5000, 5004, 5008, 5013, 5017, 5021, 5025, 5030, 5034, 5038, 5042, 5047, 5051, 5055, 5059, 5064, 5068, 5072, 5076, 5081,
     5085, 5089, 5093, 5098, 5102, 5106, 5110, 5115, 5119, 5123, 5127, 5132, 5136, 5140, 5144, 5149, 5153, 5157, 5161, 5166,
     5170, 5174, 5178, 5183, 5187, 5191, 5195, 5200, 5204, 5208, 5212, 5217, 5221, 5225, 5229, 5234, 5238, 5242, 5246, 5251,
     5255, 5259, 5263, 5267, 5272, 5276, 5280, 5284, 5289, 5293, 5297, 5301, 5306, 5310, 5314, 5318, 5323, 5327, 5331, 5335,
     5339, 5344, 5348, 5352, 5356, 5361, 5365, 5369, 5373, 5378, 5382, 5386, 5390, 5394, 5399, 5403, 5407, 5411, 5416, 5420,
     5424, 5428, 5432, 5437, 5441, 5445, 5449, 5454, 5458, 5462, 5466, 5470, 5475, 5479, 5483, 5487, 5491, 5496, 5500, 5504,
     5508, 5512, 5517, 5521, 5525, 5529, 5533, 5538, 5542, 5546, 5550, 5554, 5559, 5563, 5567, 5571, 5575, 5580, 5584, 5588,
     5592, 5596, 5601, 5605, 5609, 5613, 5617, 5622, 5626, 5630, 5634, 5638, 5642, 5647, 5651, 5655, 5659, 5663, 5667, 5672,
     5676, 5680, 5684, 5688, 5693, 5697, 5701, 5705, 5709, 5713, 5718, 5722, 5726, 5730, 5734, 5738, 5742, 5747, 5751, 5755,
     5759, 5763, 5767, 5772, 5776, 5780, 5784, 5788, 5792, 5796, 5801, 5805, 5809, 5813, 5817, 5821, 5825, 5830, 5834, 5838,
     5842, 5846, 5850, 5854, 5858, 5863, 5867, 5871, 5875, 5879, 5883, 5887, 5891, 5895, 5900, 5904, 5908, 5912, 5916, 5920,
     5924, 5928, 5932, 5937, 5941, 5945, 5949, 5953, 5957, 5961, 5965, 5969, 5973, 5978, 5982, 5986, 5990, 5994, 5998, 6002,
     6006, 6010, 6014, 6018, 6022, 6026, 6031, 6035, 6039, 6043, 6047, 6051, 6055, 6059, 6063, 6067, 6071, 6075, 6079, 6083,
     6087, 6091, 6095, 6099, 6104, 6108, 6112, 6116, 6120, 6124, 6128, 6132, 6136, 6140, 6144, 6148, 6152, 6156, 6160, 6164,
     6168, 6172, 6176, 6180, 6184, 6188, 6192, 6196, 6200, 6204, 6208, 6212, 6216, 6220, 6224, 6228, 6232, 6236, 6240, 6244,
     6248, 6252, 6256, 6260, 6264, 6268, 6272, 6276, 6280, 6284, 6288, 6292, 6296, 6300, 6304, 6308, 6312, 6316, 6320, 6323,
     6327, 6331, 6335, 6339, 6343, 6347, 6351, 6355, 6359, 6363, 6367, 6371, 6375, 6379, 6383, 6386, 6390, 6394, 6398, 6402,
     6406, 6410, 6414, 6418, 6422, 6426, 6430, 6433, 6437, 6441, 6445, 6449, 6453, 6457, 6461, 6465, 6468, 6472, 6476, 6480,
     6484, 6488, 6492, 6496, 6499, 6503, 6507, 6511, 6515, 6519, 6523, 6526, 6530, 6534, 6538, 6542, 6546, 6550, 6553, 6557,
     6561, 6565, 6569, 6573, 6576, 6580, 6584, 6588, 6592, 6596, 6599, 6603, 6607, 6611, 6615, 6618, 6622, 6626, 6630, 6634,
     6637, 6641, 6645, 6649, 6653, 6656, 6660, 6664, 6668, 6671, 6675, 6679, 6683, 6687, 6690, 6694, 6698, 6702, 6705, 6709,
     6713, 6717, 6720, 6724, 6728, 6732, 6735, 6739, 6743, 6747, 6750, 6754, 6758, 6761, 6765, 6769, 6773, 6776, 6780, 6784,
     6787, 6791, 6795, 6799, 6802, 6806, 6810, 6813, 6817, 6821, 6824, 6828, 6832, 6835, 6839, 6843, 6846, 6850, 6854, 6857,
     6861, 6865, 6868, 6872, 6876, 6879, 6883, 6887, 6890, 6894, 6898, 6901, 6905, 6909, 6912, 6916, 6919, 6923, 6927, 6930,
     6934, 6937, 6941, 6945, 6948, 6952, 6956, 6959, 6963, 6966, 6970, 6973, 6977, 6981, 6984, 6988, 6991, 6995, 6999, 7002,
     7006
  >>

\* v5Formula(input, gamma, barrier): clamp to [0,1], sigmoid, 4 decimals.
\* The curve is tabulated for the engine's gamma and barrier.
v5Formula(input, gamma, barrier) ==
  LET normalizedInput == Max(0, Min(One, input))
  IN  V5Curve[(normalizedInput \div 10) + 1]

MEMORY_TYPE_THRESHOLDS(type) ==
  CASE type = "persona"  -> 8000
    [] type = "core"     -> 6000
    [] type = "episodic" -> 4000
    [] type = "pinned"   -> 10000

\* 0.5^(days/7) for days = 0 .. 127
HalfLifeCurve ==
  <<
     10000, 9057, 8203, 7429, 6729, 6095, 5520, 5000, 4528, 4101, 3714, 3364, 3047, 2760, 2500, 2264,
     2050, 1857, 1682, 1523, 1380, 1250, 1132, 1025, 928, 841, 761, 690, 625, 566, 512, 464,
     420, 380, 345, 312, 283, 256, 232, 210, 190, 172, 156, 141, 128, 116, 105, 95,
     86, 78, 70, 64, 58, 52, 47, 43, 39, 35, 32, 29, 26, 23, 21, 19,
     17, 16, 14, 13, 11, 10, 9, 8, 8, 7, 6, 5, 5, 4, 4, 4,
     3, 3, 2, 2, 2, 2, 2, 1, 1, 1, 1, 1, 1, 1, 0, 0,
     0, 0, 0, 0, 0, 0, 0, 0, 0, 0, 0, 0, 0, 0, 0, 0,
     0, 0, 0, 0, 0, 0, 0, 0, 0, 0, 0, 0, 0, 0, 0, 0
  >>

\* calculateTimeDecay(lastUsed): 1 when lastUsed is missing (-1)
calculateTimeDecay(lastUsed, t) ==
  IF lastUsed < 0 THEN One
  ELSE LET daysPassed == t - lastUsed
       IN  IF daysPassed < 0 THEN One
           ELSE IF daysPassed > 127 THEN 0
           ELSE HalfLifeCurve[daysPassed + 1]

-----------------------------------------------------------------------------
(* Text *)

EmptyTok == 0      \* "".split(/\s+/) is [""]: the one token of the empty text
SecretWord == 9    \* a token such as "password123": sensitive, and masked
MaskWord == 10     \* "****", what maskSensitive leaves in its place

TextA == {1, 2, 3, 4}
TextB == {1, 2, 3, 4, 5}    \* Jaccard(TextA, TextB) = 4/5 exactly
TextS == {6, SecretWord}
Texts == {TextA, TextB, TextS}

\* text.toLowerCase().split(/\s+/), as a set
SplitWs(text) == IF text = {} THEN {EmptyTok} ELSE text

\* Jaccard similarity of two token sets, |A n B| / |A u B|
Jaccard(A, B) == (One * Cardinality(A \cap B)) \div Cardinality(A \cup B)

\* FileSystemStore.textSimilarity
StoreTextSimilarity(a, b) == Jaccard(SplitWs(a), SplitWs(b))

\* scorer.js normalizeText: non-word characters become spaces and tokens of
\* one character or less are dropped, so "****" and "" leave nothing
normalizeText(text) == text \ {MaskWord, EmptyTok}

calculateKeywordSimilarity(text1, text2) ==
  IF text1 = {} \/ text2 = {} THEN 0
  ELSE LET words1 == normalizeText(text1)
           words2 == normalizeText(text2)
       IN  IF words1 = {} \/ words2 = {} THEN 0 ELSE Jaccard(words1, words2)

-----------------------------------------------------------------------------
(* Memory records *)

Types == {"pinned", "persona", "core", "episodic"}

NoId == 0          \* meta.id absent, relations.supersedes = null
NoTime == -1       \* lifecycle.expiresAt absent
TTLDays == 30      \* the default time to live

\* A MemoryRecord as the callers of the engine build it.  mstatus is the
\* property meta.status, which no record has ("undefined") until the engine
\* assigns it; lstatus is meta.lifecycle.status.
Memory(id, text, type, platform, confidence, importance, priority, expiresAt) ==
  [ shape |-> "record", id |-> id, platform |-> platform, namespace |-> "default",
    type |-> type, text |-> text,
    confidence |-> confidence, importance |-> importance,
    recall_priority |-> priority,
    supersedes |-> NoId, lstatus |-> "active", mstatus |-> "undefined",
    expiresAt |-> expiresAt, lastUsedAt |-> 0,
    sensitivity |-> "normal", masked |-> FALSE ]

\* The dimensions and expiry a caller gives a record
Profile(type, platform, c, i, rp, exp) ==
  [type |-> type, platform |-> platform, c |-> c, i |-> i, rp |-> rp, exp |-> exp]

\* the dimensions extractor.js gives each type (extractor.js:62, 88, 112)
ExtractedPersona == Profile("persona", "deepseek", 8000, 7000, 10000, NoTime)
ExtractedCore == Profile("core", "deepseek", 7500, 8500, 9000, NoTime)
ExtractedEpisodic == Profile("episodic", "deepseek", 6000, 5000, 5000, TTLDays)
\* an episodic record of little confidence, a pinned one, and a persona
\* record of another platform
WeakEpisodic == Profile("episodic", "deepseek", 2000, 2000, 5000, TTLDays)
Pinned == Profile("pinned", "deepseek", 9000, 9000, 10000, NoTime)
OtherPlatformPersona == Profile("persona", "chatgpt", 8000, 7000, 10000, NoTime)

Record(id, text, p) == Memory(id, text, p.type, p.platform, p.c, p.i, p.rp, p.exp)

\* the records callers write: under each id, texts that are identical, that
\* are 0.8 similar, and that share nothing
InputRecords ==
  { Record(id, s[1], s[2]) :
      id \in 1..MaxId,
      s \in { <<TextA, ExtractedPersona>>, <<TextB, ExtractedPersona>>,
              <<TextA, ExtractedEpisodic>>, <<TextA, WeakEpisodic>>,
              <<TextA, OtherPlatformPersona>> } }

\* import gives every record a new id, so the id of its input does not matter
ImportRecords == {m \in InputRecords : m.id = 1 /\ m.text = TextA}

\* the records a store holds before a turn or an injection is tried
SeedRecords ==
  { Record(1, TextA, ExtractedPersona), Record(1, TextA, Pinned),
    Record(2, TextB, ExtractedEpisodic), Record(2, TextS, ExtractedCore) }

\* What extractMemory returns: candidates, which carry no meta at all
Candidate(type, text) == [shape |-> "candidate", type |-> type, text |-> text]

-----------------------------------------------------------------------------
(* FileSystemStore (storage/hierarchical.js:410-544) *)

RECURSIVE SortedSeq(_)
\* the ids of a set in ascending order: the order the directory is listed in
SortedSeq(S) ==
  IF S = {} THEN <<>>
  ELSE LET m == CHOOSE x \in S : \A y \in S : x <= y
       IN  <<m>> \o SortedSeq(S \ {m})

NoFilter == "*"    \* a filter key that is not given

\* FileSystemStore.matchesFilters
matchesFilters(memory, filters) ==
  /\ filters.status = NoFilter \/ memory.lstatus = filters.status
  /\ filters.platform = NoFilter \/ memory.platform = filters.platform
  /\ filters.namespace = NoFilter \/ memory.namespace = filters.namespace
  /\ filters.type = NoFilter \/ memory.type = filters.type

Filters(status, platform, namespace) ==
  [status |-> status, platform |-> platform, namespace |-> namespace, type |-> NoFilter]

\* FileSystemStore.query: the stored records that match, in listing order
StoreQuery(st, filters) ==
  LET ids == SortedSeq({i \in DOMAIN st : matchesFilters(st[i], filters)})
  IN  [k \in 1..Len(ids) |-> st[ids[k]]]

\* FileSystemStore.findSimilar: the id of the first active record of the same
\* platform and namespace whose similarity is above 0.8, or NoId
findSimilar(st, memory) ==
  LET all == StoreQuery(st, Filters("active", memory.platform, memory.namespace))
      hits == {k \in 1..Len(all) : StoreTextSimilarity(memory.text, all[k].text) > 8000}
  IN  IF hits = {} THEN NoId
      ELSE all[CHOOSE k \in hits : \A j \in hits : k <= j].id

\* "mem_" + Date.now(): the id FileSystemStore.add gives a record without one
GeneratedId(t) == 100 + t

\* FileSystemStore.add: writes the file named by the id, whatever was there
StoreAdd(st, memory, t) ==
  LET id == IF memory.id = NoId THEN GeneratedId(t) ELSE memory.id
  IN  (id :> [memory EXCEPT !.id = id]) @@ st

\* FileSystemStore.update: full overwrite of the record's file
StoreUpdate(st, memory) == (memory.id :> memory) @@ st

\* FileSystemStore.delete: unlinks the file
StoreDelete(st, id) == [i \in DOMAIN st \ {id} |-> st[i]]

-----------------------------------------------------------------------------
(* scorer.js: the write and recall scores *)

\* calculateWriteScore(memory, config): 0.4c + 0.3i + 0.2*platformWeight +
\* 0.1*freshness; a record's dimensions carry neither platformWeight nor
\* freshness, so the defaults 1.0 and 0.8 apply.  It reads memory.meta.dimensions:
\* a value without meta (a candidate, a number) makes it throw.
calculateWriteScoreThrows(memory) == memory.shape # "record"

calculateWriteScore(memory) ==
  (4 * OrDefault(memory.confidence, 8000) + 3 * OrDefault(memory.importance, 7000)
     + 2 * One + 1 * 8000) \div 10

\* scorer.js calculateRecallScore: 0.3 keyword + 0.3 priority + 0.2 decay +
\* 0.2 platform weight, through v5Formula
calculateRecallScore(input, memory, gamma, barrier, t) ==
  LET keywordScore == calculateKeywordSimilarity(input, memory.text)
      timeDecay == calculateTimeDecay(memory.lastUsedAt, t)
      priorityScore == OrDefault(memory.recall_priority, 5000)
      platformWeight == IF memory.platform = "deepseek" THEN One ELSE 9000
      inputScore == (3 * keywordScore + 3 * priorityScore + 2 * timeDecay
                       + 2 * platformWeight) \div 10
  IN  v5Formula(inputScore, gamma, barrier)

getTypeScore(type) ==
  CASE type = "pinned"   -> 10000
    [] type = "persona"  -> 8500
    [] type = "core"     -> 7000
    [] type = "episodic" -> 5000

\* A JavaScript NaN.  Arithmetic with it gives NaN and every comparison with
\* it is false.
NaN == -1

\* v5BarrierEquation as the engine calls it: Math.min/max, exp and toFixed all
\* pass a NaN through
v5BarrierEquation(input, gamma, barrier) ==
  IF input = NaN THEN NaN ELSE v5Formula(input, gamma, barrier)

\* `intersection.size / union.size` where intersection is the Array that
\* filter returns: an Array has no size, and undefined / n is NaN
ArraySizeOver(intersection, union) == NaN

\* V5MetaEngine.calculateMatchScore: 0.35 keyword + 0.25 priority + 0.2 decay
\* (7 day half life) + 0.1 platform + 0.1 type
calculateMatchScore(input, memory, t) ==
  LET inputWords == SplitWs(input)
      memoryWords == SplitWs(memory.text)
      union == inputWords \cup memoryWords
      keywordScore == IF Cardinality(union) > 0
                      THEN ArraySizeOver(inputWords \cap memoryWords, union)
                      ELSE 0
      priorityScore == OrDefault(memory.recall_priority, 5000)
      timeDecay == calculateTimeDecay(memory.lastUsedAt, t)
      typeScore == getTypeScore(memory.type)
  IN  IF keywordScore = NaN THEN NaN
      ELSE (35 * keywordScore + 25 * priorityScore + 20 * timeDecay + 10 * One
              + 10 * typeScore) \div 100

-----------------------------------------------------------------------------
(* V5MetaEngine: sensitive text, budgets *)

\* maskSensitive: the secret token becomes "****"
maskSensitive(text) == {IF w = SecretWord THEN MaskWord ELSE w : w \in text}

\* V5MetaEngine.processSensitive
processSensitive(memory, cfg) ==
  IF ~cfg.autoMaskSensitive THEN memory
  ELSE LET sensitivity ==
             IF SecretWord \in memory.text THEN "highly_sensitive" ELSE "normal"
       IN  IF sensitivity = "highly_sensitive" /\ ~memory.masked
           THEN [memory EXCEPT !.text = maskSensitive(@),
                               !.sensitivity = sensitivity, !.masked = TRUE]
           ELSE [memory EXCEPT !.sensitivity = sensitivity]

RECURSIVE SortDesc(_)
\* Array.prototype.sort((a, b) => b.score - a.score): descending and stable
SortDesc(s) ==
  IF s = <<>> THEN <<>>
  ELSE LET rest == SortDesc(SubSeq(s, 1, Len(s) - 1))
           x == s[Len(s)]
           k == Cardinality({j \in 1..Len(rest) : rest[j].score >= x.score})
       IN  SubSeq(rest, 1, k) \o <<x>> \o SubSeq(rest, k + 1, Len(rest))

OfType(scored, type) == SelectSeq(scored, LAMBDA m : m.mem.type = type)

\* items.slice(0, n)
Slice(items, n) == SubSeq(items, 1, Min(n, Len(items)))

\* V5MetaEngine.allocateBudget: per type, the first budget[type] of the pool,
\* persona then core then episodic
allocateBudget(scored, budget) ==
  Slice(OfType(scored, "persona"), budget.persona)
    \o Slice(OfType(scored, "core"), budget.core)
    \o Slice(OfType(scored, "episodic"), budget.episodic)

RECURSIVE CropLoop(_, _, _, _)
CropLoop(ms, budget, used, result) ==
  IF ms = <<>> THEN result
  ELSE LET mem == Head(ms)
           type == mem.mem.type
       IN  \* used has no pinned counter: undefined < n is false
           IF type \in DOMAIN used /\ used[type] < OrDefault(budget[type], 6)
           THEN CropLoop(Tail(ms), budget, [used EXCEPT ![type] = @ + 1],
                         Append(result, mem))
           ELSE CropLoop(Tail(ms), budget, used, result)

\* V5MetaEngine.cropMemories
cropMemories(sortedMemories, budget) ==
  CropLoop(sortedMemories, budget, [persona |-> 0, core |-> 0, episodic |-> 0], <<>>)

\* V5MetaEngine.buildContext: "" for no memories, else the header, one section
\* per non-empty type in the order pinned, persona, core, episodic, and the rule
Section(memories, type) ==
  LET items == SelectSeq(memories, LAMBDA m : m.mem.type = type)
  IN  IF items = <<>> THEN <<>>
      ELSE << [part |-> "section", type |-> type,
               ids |-> [k \in 1..Len(items) |-> items[k].mem.id]] >>

buildContext(memories) ==
  IF memories = <<>> THEN <<>>
  ELSE << [part |-> "header", type |-> "", ids |-> <<>>] >>
         \o Section(memories, "pinned") \o Section(memories, "persona")
         \o Section(memories, "core") \o Section(memories, "episodic")
         \o << [part |-> "rule", type |-> "", ids |-> <<>>] >>

-----------------------------------------------------------------------------
(* V5MetaEngine.write and the conflict check *)

\* V5MetaEngine.textSimilarity: 0 when either text is empty, else
\* intersection.size / union.size over the filtered Array
textSimilarity(a, b) ==
  IF a = {} \/ b = {} THEN 0
  ELSE LET setA == SplitWs(a)
           setB == SplitWs(b)
           union == setA \cup setB
       IN  IF Cardinality(union) > 0 THEN ArraySizeOver(setA \cap setB, union) ELSE 0

\* What write does to the record findSimilar returned before it is updated:
\* `existing.meta.status = 'superseded'`
MarkSuperseded(existing) == [existing EXCEPT !.mstatus = "superseded"]

RECURSIVE WriteLoop(_, _, _, _, _)
\* the for loop of V5MetaEngine.write over the memories still to write
WriteLoop(st, memories, written, cfg, t) ==
  IF memories = <<>> THEN [store |-> st, written |-> written, threw |-> FALSE]
  ELSE LET mem == Head(memories)
       IN  IF calculateWriteScoreThrows(mem)
           THEN [store |-> st, written |-> written, threw |-> TRUE]
           ELSE IF calculateWriteScore(mem) < cfg.writeThreshold
           THEN WriteLoop(st, Tail(memories), written, cfg, t)
           ELSE LET masked == processSensitive(mem, cfg)
                    existing == findSimilar(st, masked)
                    processed == IF existing # NoId
                                 THEN [masked EXCEPT !.supersedes = existing]
                                 ELSE masked
                    st1 == IF existing # NoId
                           THEN StoreUpdate(st, MarkSuperseded(st[existing]))
                           ELSE st
                    st2 == StoreAdd(st1, processed, t)
                    id == IF processed.id = NoId THEN GeneratedId(t) ELSE processed.id
                IN  WriteLoop(st2, Tail(memories),
                              Append(written, [processed EXCEPT !.id = id]), cfg, t)

\* What cleanup does to an expired record before it is updated:
\* `mem.meta.status = 'expired'`
MarkExpired(mem) == [mem EXCEPT !.mstatus = "expired"]

RECURSIVE CleanupLoop(_, _, _, _)
\* the for loop of V5MetaEngine.cleanup over the queried records
CleanupLoop(st, all, cleaned, t) ==
  IF all = <<>> THEN [store |-> st, cleaned |-> cleaned]
  ELSE LET mem == Head(all)
       IN  IF mem.lstatus = "deleted" THEN CleanupLoop(st, Tail(all), cleaned, t)
           ELSE IF mem.expiresAt # NoTime /\ mem.expiresAt < t
           THEN CleanupLoop(StoreUpdate(st, MarkExpired(mem)), Tail(all), cleaned + 1, t)
           ELSE CleanupLoop(st, Tail(all), cleaned, t)

\* V5MetaEngine.recall: query the active records of the scope, score, filter
\* by recallThreshold, sort, allocate the budget
ScoreForRecall(memories, input, cfg, t) ==
  [k \in 1..Len(memories) |->
     [mem |-> memories[k],
      score |-> calculateRecallScore(input, memories[k], cfg.gamma, cfg.barrier, t)]]

RecallFilter(scored, cfg) == SelectSeq(scored, LAMBDA m : m.score >= cfg.recallThreshold)

recall(st, input, cfg, t) ==
  LET memories == StoreQuery(st, Filters("active", cfg.platform, cfg.namespace))
      scored == ScoreForRecall(memories, input, cfg, t)
      filtered == SortDesc(RecallFilter(scored, cfg))
  IN  allocateBudget(filtered, cfg.budget)

-----------------------------------------------------------------------------
(* Platform adapters and requests *)

\* An adapter is a BaseAdapter subclass of adapt/platform_adapters.js
\* ("class"), which has injectToRequest, or an object of the four methods
\* name, parseRequest, parseResponse, inject such as injector.js exports
\* ("literal"), or null ("none")
Adapter(kind, name) == [kind |-> kind, name |-> name]
NoAdapter == Adapter("none", "")
Adapters ==
  { NoAdapter, Adapter("class", "deepseek"), Adapter("class", "chatgpt"),
    Adapter("literal", "deepseek") }

\* the platform argument of a call; "" is an omitted one
Platforms == {"", "deepseek", "chatgpt", "unknown"}

\* getAdapter(name) of adapt/platform_adapters.js: null for an unknown name
getAdapter(name) ==
  IF name \in {"deepseek", "chatgpt"} THEN Adapter("class", name) ELSE NoAdapter

\* A request: a plain string, a chat request whose last message is the user's
\* or the assistant's, or null.  context is what was injected into it.
Request(kind) == [kind |-> kind, injected |-> FALSE, context |-> <<>>]
Requests == {Request(k) : k \in {"string", "chat_user", "chat_assistant", "null"}}

\* BaseAdapter.parseRequest reads request.messages: a null request throws
parseRequestThrows(request) == request.kind = "null"

\* BaseAdapter.injectToRequest: a clone with the last user message replaced,
\* or the request itself when there is no such message
injectToRequest(request, context) ==
  IF request.kind = "chat_user"
  THEN [request EXCEPT !.injected = TRUE, !.context = context]
  ELSE request

\* The user input of a call: a string with its tokens, or a value that is
\* not a string (and not falsy)
Inputs ==
  { [isString |-> TRUE, text |-> TextA], [isString |-> TRUE, text |-> {7}],
    [isString |-> FALSE, text |-> {}] }

-----------------------------------------------------------------------------
(* V5MetaEngine.retrieveAndInject *)

Outcome(raised, logged, request, memories) ==
  [raised |-> raised, threw |-> FALSE, logged |-> logged,
   request |-> request, memories |-> memories]

retrieveAndInjectCatchSilent(request) == Outcome(TRUE, <<>>, request, <<>>)

\* The catch block: log ERROR, return the request that was given and no memories
retrieveAndInjectCatch(request) == Outcome(TRUE, <<"ERROR">>, request, <<>>)

ScoreForInject(memories, input, cfg, t) ==
  [k \in 1..Len(memories) |->
     [mem |-> memories[k],
      score |-> v5BarrierEquation(calculateMatchScore(input.text, memories[k], t),
                                  cfg.gamma, cfg.barrier)]]

\* The try block.  ioFail: the store's query rejects.
retrieveAndInject(st, input, platform, request, ioFail, adapter, cfg, t) ==
  IF ioFail THEN retrieveAndInjectCatch(request)
  ELSE
    LET memories == StoreQuery(st, Filters("active",
                       IF platform = "" THEN cfg.platform ELSE platform, cfg.namespace))
    IN  IF memories = <<>> THEN Outcome(FALSE, <<>>, request, <<>>)
        ELSE IF ~input.isString THEN retrieveAndInjectCatch(request)
        ELSE
          LET sortedMemories == SortDesc(ScoreForInject(memories, input, cfg, t))
              selectedMemories == cropMemories(sortedMemories, cfg.budget)
              ad == IF adapter # NoAdapter THEN adapter ELSE getAdapter(platform)
          IN  IF ad = NoAdapter THEN retrieveAndInjectCatch(request)
              ELSE IF ad.kind = "literal" THEN retrieveAndInjectCatch(request)
              ELSE IF parseRequestThrows(request) THEN retrieveAndInjectCatch(request)
              ELSE Outcome(FALSE, <<"RECALL">>,
                           injectToRequest(request, buildContext(selectedMemories)),
                           selectedMemories)

-----------------------------------------------------------------------------
(* extractor.js *)

\* A response: a string, given by the pattern matches found in it, or null.
\* A match has the type of its pattern family, its text, its length in
\* characters, whether it holds a first person pronoun, and how often the text
\* occurs in the response.
Match(type, text, len, pronoun, occurrences) ==
  [type |-> type, text |-> text, len |-> len, pronoun |-> pronoun,
   occurrences |-> occurrences]

Response(kind, matches) == [kind |-> kind, matches |-> matches]

Responses ==
  { Response("string", <<>>),
    Response("string", << Match("persona", TextA, 12, TRUE, 1) >>),
    Response("string", << Match("episodic", TextB, 6, FALSE, 1),
                          Match("episodic", TextB, 6, FALSE, 1) >>),
    Response("null", <<>>) }

\* adapter.parseResponse reads response.choices: a null response throws
parseResponseThrows(response) == response.kind = "null"

typeWeights(type) ==
  CASE type = "persona"  -> 9000
    [] type = "core"     -> 8500
    [] type = "episodic" -> 7000
    [] OTHER             -> 5000

\* scoreExtraction
scoreExtraction(c) ==
  LET s0 == 5000
      s1 == IF c.len >= 10 /\ c.len <= 100 THEN s0 + 2000
            ELSE IF c.len > 100 THEN s0 - 1000 ELSE s0
      s2 == IF c.pronoun THEN s1 + 1500 ELSE s1
      s3 == (s2 * typeWeights(c.type)) \div One
      s4 == IF c.occurrences > 1 THEN (s3 * 8000) \div One ELSE s3
  IN  Min(s4, One)

RECURSIVE deduplicate(_, _)
\* deduplicate: the first candidate of each text is kept
deduplicate(candidates, seen) ==
  IF candidates = <<>> THEN <<>>
  ELSE LET c == Head(candidates)
       IN  IF c.text \in seen THEN deduplicate(Tail(candidates), seen)
           ELSE <<c>> \o deduplicate(Tail(candidates), seen \cup {c.text})

\* extractMemory: candidates of the matches, scored, those under 0.4 dropped,
\* deduplicated
extractMemory(response) ==
  LET kept == SelectSeq(response.matches, LAMBDA c : scoreExtraction(c) >= 4000)
      candidates == [k \in 1..Len(kept) |-> Candidate(kept[k].type, kept[k].text)]
  IN  deduplicate(candidates, {})

-----------------------------------------------------------------------------
(* V5MetaEngine.processTurn *)

Phases == <<"recall", "inject", "extract", "write">>

\* recall throws when the query rejects, or when scoring calls toLowerCase on
\* an input that is no string (calculateKeywordSimilarity returns early for a
\* record without text)
recallThrows(st, input, ioFail, cfg) ==
  \/ ioFail
  \/ /\ ~input.isString
     /\ \E i \in DOMAIN st :
          /\ matchesFilters(st[i], Filters("active", cfg.platform, cfg.namespace))
          /\ st[i].text # {}

\* V5MetaEngine.inject: throws without an adapter, else injectMemory
injectThrows(adapter) == adapter = NoAdapter

injectMemory(input, memories) ==
  IF memories = <<>> THEN [injected |-> FALSE, context |-> <<>>, memories |-> 0]
  ELSE [injected |-> TRUE, context |-> buildContext(memories), memories |-> Len(memories)]

\* V5MetaEngine.extract: throws without an adapter, and when parseResponse does
extractThrows(adapter, response) == adapter = NoAdapter \/ parseResponseThrows(response)

NotInjected == [injected |-> FALSE, context |-> <<>>, memories |-> 0]

TurnResultNoError(recalled, injected, extracted, written, failed, attempted, st) ==
  [recalled |-> recalled, injected |-> injected, extracted |-> extracted,
   written |-> written, errors |-> <<>>,
   failedPhase |-> failed, attempted |-> attempted, threw |-> FALSE, store |-> st]

\* The result object as the catch block leaves it when `phase` threw: the
\* phases before it have their results, one error is pushed
TurnResult(recalled, injected, extracted, written, failed, attempted, st) ==
  [recalled |-> recalled, injected |-> injected, extracted |-> extracted,
   written |-> written,
   errors |-> IF failed = "none" THEN <<>> ELSE <<"processTurn">>,
   failedPhase |-> failed, attempted |-> attempted, threw |-> FALSE, store |-> st]

\* processTurn: recall, inject, extract, write inside one try block
processTurn(st, input, response, ioFail, adapter, cfg, t) ==
  IF recallThrows(st, input, ioFail, cfg)
  THEN TurnResult(<<>>, NotInjected, <<>>, <<>>, "recall", SubSeq(Phases, 1, 1), st)
  ELSE
    LET recalled == recall(st, input.text, cfg, t)
    IN  IF injectThrows(adapter)
        THEN TurnResult(recalled, NotInjected, <<>>, <<>>, "inject", SubSeq(Phases, 1, 2), st)
        ELSE
          LET injected == injectMemory(input, recalled)
          IN  IF extractThrows(adapter, response)
              THEN TurnResult(recalled, injected, <<>>, <<>>, "extract",
                              SubSeq(Phases, 1, 3), st)
              ELSE
                LET extracted == extractMemory(response)
                    w == WriteLoop(st, extracted, <<>>, cfg, t)
                IN  TurnResult(recalled, injected, extracted,
                               IF w.threw THEN <<>> ELSE w.written,
                               IF w.threw THEN "write" ELSE "none",
                               Phases, w.store)

-----------------------------------------------------------------------------
(* The engine: state after construction, and its operations *)

MaxBudget == 1      \* updateConfig sets uniform budgets 0..MaxBudget

Budget(p, c, e) == [persona |-> p, core |-> c, episodic |-> e]

\* the config the constructor builds from no options
DefaultConfig ==
  [ gamma |-> 85, barrier |-> 5000, recallThreshold |-> 5000,
    writeThreshold |-> 6000, platform |-> "deepseek", namespace |-> "default",
    budget |-> Budget(3, 4, 6), autoMaskSensitive |-> TRUE ]

EmptyStore == [i \in {} |-> 0]

\* no write call is under way
NoWrites == [active |-> FALSE]

\* no experiment has been created
NoExperiment == [pc |-> "none"]

Init ==
  /\ store = EmptyStore
  /\ auditLog = <<>>
  /\ platformAdapter = NoAdapter
  /\ config = DefaultConfig
  /\ imported = 0
  /\ now = 0
  /\ last = [op |-> "new"]
  /\ hotCache = EmptyStore
  /\ warmStore = EmptyStore
  /\ coldStore = EmptyStore
  /\ crec = [op |-> "none", n |-> 0]
  /\ writes = NoWrites
  /\ backend = "FileSystemStore"
  /\ experiment = NoExperiment

\* setPlatformAdapter(adapter)
SetPlatformAdapter(adapter) ==
  /\ platformAdapter' = adapter
  /\ config' = IF adapter # NoAdapter THEN [config EXCEPT !.platform = adapter.name]
               ELSE config
  /\ last' = [op |-> "setPlatformAdapter"]
  /\ UNCHANGED <<store, auditLog, imported, now, tierVars, crec, writes, backend, experiment>>

\* updateConfig({budget})
UpdateConfig(budget) ==
  /\ config' = [config EXCEPT !.budget = budget]
  /\ last' = [op |-> "updateConfig"]
  /\ UNCHANGED <<store, auditLog, platformAdapter, imported, now, tierVars, crec, writes, backend, experiment>>

\* write(memories)
Write(memories) ==
  LET r == WriteLoop(store, memories, <<>>, config, now)
  IN  /\ store' = r.store
      /\ last' = [op |-> "write", input |-> memories, written |-> r.written,
                  threw |-> r.threw]
      /\ UNCHANGED <<auditLog, platformAdapter, config, imported, now, tierVars, crec, writes, backend, experiment>>

\* cleanup()
Cleanup ==
  LET all == StoreQuery(store, Filters(NoFilter, config.platform, config.namespace))
      r == CleanupLoop(store, all, 0, now)
  IN  /\ store' = r.store
      /\ last' = [op |-> "cleanup", cleaned |-> r.cleaned]
      /\ UNCHANGED <<auditLog, platformAdapter, config, imported, now, tierVars, crec, writes, backend, experiment>>

\* store.delete(id)
Delete(id) ==
  /\ id \in DOMAIN store
  /\ store' = StoreDelete(store, id)
  /\ last' = [op |-> "delete", id |-> id]
  /\ UNCHANGED <<auditLog, platformAdapter, config, imported, now, tierVars, crec, writes, backend, experiment>>

\* "mem_" + Date.now() + "_" + a random suffix: the n-th id import makes
ImportedId(n) == 200 + n

\* import(data) of one exported record: a new id, then store.add
Import(mem) ==
  /\ imported < MaxImport
  /\ imported' = imported + 1
  /\ store' = StoreAdd(store, [mem EXCEPT !.id = ImportedId(imported')], now)
  /\ last' = [op |-> "import", id |-> ImportedId(imported')]
  /\ UNCHANGED <<auditLog, platformAdapter, config, now, tierVars, crec, writes, backend, experiment>>

\* recall(input), called directly: an exception reaches the caller
Recall(input, ioFail) ==
  /\ last' = IF recallThrows(store, input, ioFail, config)
             THEN [op |-> "recall", threw |-> TRUE, recalled |-> <<>>]
             ELSE [op |-> "recall", threw |-> FALSE,
                   recalled |-> recall(store, input.text, config, now)]
  /\ UNCHANGED <<engineVars, now, tierVars, crec, writes, backend, experiment>>

\* retrieveAndInject(input, platform, request)
RetrieveAndInject(input, platform, request, ioFail) ==
  LET r == retrieveAndInject(store, input, platform, request, ioFail,
                             platformAdapter, config, now)
  IN  /\ Len(auditLog) < MaxAudit
      /\ auditLog' = auditLog \o r.logged
      /\ last' = [op |-> "retrieveAndInject", given |-> request, result |-> r]
      /\ UNCHANGED <<store, platformAdapter, config, imported, now, tierVars, crec, writes, backend, experiment>>

\* processTurn(input, response)
ProcessTurn(input, response, ioFail) ==
  LET r == processTurn(store, input, response, ioFail, platformAdapter, config, now)
  IN  /\ store' = r.store
      /\ last' = [op |-> "processTurn", result |-> r]
      /\ UNCHANGED <<auditLog, platformAdapter, config, imported, now, tierVars, crec, writes, backend, experiment>>

\* the clock moves on
Tick ==
  /\ now < MaxTicks * TickDays
  /\ now' = now + TickDays
  /\ last' = [op |-> "tick"]
  /\ UNCHANGED <<engineVars, tierVars, crec, writes, backend, experiment>>

-----------------------------------------------------------------------------
(* V5MetaEngine.extractAndSave *)

\* What extractAndSave passes calculateWriteScore as its `memory`: the number
\* securedContent.confidence || 0.8
ScoreArgument == [shape |-> "number"]

\* createMemoryEntry evaluates `Date.now()()`: calling a number throws
createMemoryEntryThrows == TRUE

\* extractAndSave(conversation, platform): nothing catches, so the first
\* throw reaches the caller.  Steps 5 to 7 (createMemoryEntry, handleConflict,
\* store.add, the WRITE log) lie behind the throw of createMemoryEntry.
extractAndSave(conversation, adapter, cfg) ==
  IF adapter = NoAdapter THEN [threw |-> TRUE, at |-> "adapter", logged |-> <<>>]
  ELSE IF parseResponseThrows(conversation)
  THEN [threw |-> TRUE, at |-> "parseResponse", logged |-> <<>>]
  ELSE IF calculateWriteScoreThrows(ScoreArgument)
  THEN [threw |-> TRUE, at |-> "calculateWriteScore", logged |-> <<>>]
  ELSE LET activateProbability ==
             v5BarrierEquation(calculateWriteScore(ScoreArgument), cfg.gamma, cfg.barrier)
           typeThreshold == MEMORY_TYPE_THRESHOLDS("episodic")
       IN  IF activateProbability < typeThreshold
           THEN [threw |-> FALSE, at |-> "", logged |-> <<"FILTERED">>]
           ELSE [threw |-> createMemoryEntryThrows, at |-> "createMemoryEntry",
                 logged |-> <<>>]

ExtractAndSave(conversation) ==
  LET r == extractAndSave(conversation, platformAdapter, config)
  IN  /\ Len(auditLog) + Len(r.logged) <= MaxAudit
      /\ auditLog' = auditLog \o r.logged
      /\ last' = [op |-> "extractAndSave", threw |-> r.threw, at |-> r.at]
      /\ UNCHANGED <<store, platformAdapter, config, imported, now, tierVars, crec, writes, backend, experiment>>

-----------------------------------------------------------------------------
(* The engine as its callers drive it *)

Budgets == {Budget(3, 4, 6)} \cup {Budget(b, b, b) : b \in 0..MaxBudget}

\* The store driven by writes, cleanup, deletion, import and recall while
\* the clock runs
Next ==
  \/ \E m \in InputRecords : Write(<<m>>)
  \/ Cleanup
  \/ \E id \in DOMAIN store : Delete(id)
  \/ \E m \in ImportRecords : Import(m)
  \/ \E i \in Inputs, f \in BOOLEAN : Recall(i, f)
  \/ Tick

Spec == Init /\ [][Next]_vars

\* Injection into requests, under every adapter and budget, over a seeded store
NextInject ==
  \/ \E a \in Adapters : SetPlatformAdapter(a)
  \/ \E b \in Budgets : UpdateConfig(b)
  \/ \E m \in SeedRecords : Write(<<m>>)
  \/ \E i \in Inputs, p \in Platforms, r \in Requests, f \in BOOLEAN :
       RetrieveAndInject(i, p, r, f)

SpecInject == Init /\ [][NextInject]_vars

\* Whole turns and extractAndSave, under every adapter, over a seeded store
NextTurn ==
  \/ \E a \in Adapters : SetPlatformAdapter(a)
  \/ \E m \in SeedRecords : Write(<<m>>)
  \/ \E i \in Inputs, r \in Responses, f \in BOOLEAN : ProcessTurn(i, r, f)
  \/ \E r \in Responses : ExtractAndSave(r)

SpecTurn == Init /\ [][NextTurn]_vars

-----------------------------------------------------------------------------
(* Two write calls that overlap: each runs from one await to the next *)

Writers == {1, 2}

\* write(<<mem>>) up to its first await: the score gate and processSensitive.
\* A record under the threshold is skipped and the call is over.
WriteCalled(mem, cfg) ==
  IF calculateWriteScore(mem) < cfg.writeThreshold
  THEN [pc |-> "done", given |-> mem, processed |-> mem, existing |-> NoId]
  ELSE [pc |-> "findSimilar", given |-> mem, processed |-> processSensitive(mem, cfg),
        existing |-> NoId]

\* `await this.store.findSimilar(processed)` has returned: with a record, write
\* sets supersedes on the new record and the status on the object it was
\* given, and calls update; without one it calls add
WriteFound(w, st) ==
  IF findSimilar(st, w.processed) # NoId
  THEN [w EXCEPT !.pc = "update",
                 !.processed.supersedes = findSimilar(st, w.processed),
                 !.existing = MarkSuperseded(st[findSimilar(st, w.processed)])]
  ELSE [w EXCEPT !.pc = "add"]

\* what one write call after the other leaves of a store
WriteThenWrite(st, first, second, cfg, t) ==
  WriteLoop(WriteLoop(st, <<first>>, <<>>, cfg, t).store, <<second>>, <<>>, cfg, t).store

\* two callers call write, one record each, before either call has returned
CallWrites(m1, m2) ==
  /\ ~writes.active
  /\ writes' = [active |-> TRUE, base |-> store,
                call |-> [k \in Writers |->
                            WriteCalled(IF k = 1 THEN m1 ELSE m2, config)]]
  /\ last' = [op |-> "callWrites"]
  /\ UNCHANGED <<engineVars, now, tierVars, crec, backend, experiment>>

\* findSimilar resolves for writer k
WriteFindSimilar(k) ==
  /\ writes.active /\ writes.call[k].pc = "findSimilar"
  /\ writes' = [writes EXCEPT !.call[k] = WriteFound(@, store)]
  /\ last' = [op |-> "findSimilar", writer |-> k]
  /\ UNCHANGED <<engineVars, now, tierVars, crec, backend, experiment>>

\* `await this.store.update(existing)` of writer k
WriteUpdate(k) ==
  /\ writes.active /\ writes.call[k].pc = "update"
  /\ store' = StoreUpdate(store, writes.call[k].existing)
  /\ writes' = [writes EXCEPT !.call[k].pc = "add"]
  /\ last' = [op |-> "update", writer |-> k]
  /\ UNCHANGED <<auditLog, platformAdapter, config, imported, now, tierVars, crec, backend, experiment>>

\* `await this.store.add(processed)` of writer k, after which its call returns
WriteAdd(k) ==
  /\ writes.active /\ writes.call[k].pc = "add"
  /\ store' = StoreAdd(store, writes.call[k].processed, now)
  /\ writes' = [writes EXCEPT !.call[k].pc = "done"]
  /\ last' = [op |-> "add", writer |-> k]
  /\ UNCHANGED <<auditLog, platformAdapter, config, imported, now, tierVars, crec, backend, experiment>>

\* both calls have returned
WritesReturned ==
  /\ writes.active
  /\ \A k \in Writers : writes.call[k].pc = "done"
  /\ writes' = NoWrites
  /\ last' = [op |-> "writesReturned"]
  /\ UNCHANGED <<engineVars, now, tierVars, crec, backend, experiment>>

\* A store filled by single writes, then written to by two callers at once
NextRace ==
  \/ \E m \in InputRecords : ~writes.active /\ Write(<<m>>)
  \/ \E m1, m2 \in InputRecords : CallWrites(m1, m2)
  \/ \E k \in Writers : WriteFindSimilar(k)
  \/ \E k \in Writers : WriteUpdate(k)
  \/ \E k \in Writers : WriteAdd(k)
  \/ WritesReturned

SpecRace == Init /\ [][NextRace]_vars

-----------------------------------------------------------------------------
(* The stores behind V5MemoryStore, driven through their own interface *)

\* the records handed to a store: two of id 1 that differ in all else, one of
\* another platform, one of another namespace, one without an id
StoreRecords ==
  { Record(1, TextA, ExtractedPersona),
    Record(1, TextB, ExtractedEpisodic),
    Record(2, TextA, OtherPlatformPersona),
    [Record(2, TextA, ExtractedPersona) EXCEPT !.namespace = "work"],
    Record(NoId, TextA, ExtractedPersona) }

\* the filters handed to query
StoreFilters ==
  { f \in [status : {NoFilter, "active"}, platform : {NoFilter, "deepseek"},
                      namespace : {NoFilter, "default"}, type : {NoFilter}] : TRUE }

\* what get returns for an id that has no record
Null == [shape |-> "null"]

\* FileSystemStore.get / IndexedDBStore.get.  What is read back is what
\* JSON.stringify wrote (or a structured clone): the fields of a record are
\* strings, numbers and null, which come back as they went in.
StoreGet(st, id) == IF id \in DOMAIN st THEN st[id] ELSE Null

\* IndexedDBStore.add: objectStore.add on the key path meta.id, which fails
\* for a value without the key and for a key that is already stored
IndexedDBAddRejects(st, memory) == memory.id = NoId \/ memory.id \in DOMAIN st

\* IndexedDBStore.findSimilar: the first record of query({status: 'active'})
\* whose similarity is above 0.8, or NoId
IndexedDBFindSimilar(st, memory) ==
  LET all == StoreQuery(st, Filters("active", NoFilter, NoFilter))
      hits == {k \in 1..Len(all) : StoreTextSimilarity(memory.text, all[k].text) > 8000}
  IN  IF hits = {} THEN NoId
      ELSE all[CHOOSE k \in hits : \A j \in hits : k <= j].id

\* new V5MemoryStore(options): the class is chosen by options.useFileSystem
NewStore(useFileSystem) ==
  /\ store = EmptyStore
  /\ backend' = IF useFileSystem THEN "FileSystemStore" ELSE "IndexedDBStore"
  /\ last' = [op |-> "newStore"]
  /\ UNCHANGED <<store, auditLog, platformAdapter, config, imported, now, tierVars,
                 crec, writes, experiment>>

\* store.add(memory)
StoreAddCall(memory) ==
  /\ IF backend = "IndexedDBStore" /\ IndexedDBAddRejects(store, memory)
     THEN /\ store' = store
          /\ last' = [op |-> "add", given |-> memory, rejected |-> TRUE, returned |-> NoId]
     ELSE /\ store' = StoreAdd(store, memory, now)
          /\ last' = [op |-> "add", given |-> memory, rejected |-> FALSE,
                      returned |-> IF memory.id = NoId THEN GeneratedId(now)
                                   ELSE memory.id]
  /\ UNCHANGED <<auditLog, platformAdapter, config, imported, now, tierVars, crec,
                 writes, backend, experiment>>

\* store.update(memory)
StoreUpdateCall(memory) ==
  /\ memory.id # NoId
  /\ store' = StoreUpdate(store, memory)
  /\ last' = [op |-> "update", given |-> memory]
  /\ UNCHANGED <<auditLog, platformAdapter, config, imported, now, tierVars, crec,
                 writes, backend, experiment>>

\* store.get(id)
StoreGetCall(id) ==
  /\ last' = [op |-> "get", id |-> id, returned |-> StoreGet(store, id)]
  /\ UNCHANGED <<engineVars, now, tierVars, crec, writes, backend, experiment>>

\* store.query(filters)
StoreQueryCall(filters) ==
  /\ last' = [op |-> "query", filters |-> filters, returned |-> StoreQuery(store, filters)]
  /\ UNCHANGED <<engineVars, now, tierVars, crec, writes, backend, experiment>>

\* store.findSimilar(memory)
StoreFindSimilarCall(memory) ==
  /\ last' = [op |-> "findSimilar", given |-> memory,
              returned |-> IF backend = "IndexedDBStore"
                           THEN IndexedDBFindSimilar(store, memory)
                           ELSE findSimilar(store, memory)]
  /\ UNCHANGED <<engineVars, now, tierVars, crec, writes, backend, experiment>>

NextStore ==
  \/ \E useFileSystem \in BOOLEAN : NewStore(useFileSystem)
  \/ \E m \in StoreRecords : StoreAddCall(m)
  \/ \E m \in StoreRecords : StoreUpdateCall(m)
  \/ \E id \in {1, 2, 3, GeneratedId(now)} : StoreGetCall(id)
  \/ \E id \in DOMAIN store : Delete(id)
  \/ \E f \in StoreFilters : StoreQueryCall(f)
  \/ \E m \in StoreRecords : StoreFindSimilarCall(m)

SpecStore == Init /\ [][NextStore]_vars

-----------------------------------------------------------------------------
(* compression/compressor.js *)

\* The compressor reads a text as sentences and words, so here a text is the
\* sequence of its tokens: words 1..MaxWord (strings of six letters, none a
\* part of another; word 2 holds a term such as "模型"), the terminator Sep
\* that ends a sentence, and the markup the compressor itself writes.
MaxWord == 2        \* the words of a text are 1..MaxWord
MaxTextLen == 3     \* tokens of a text handed to the compressor
MaxCompressions == 2  \* times one record is compressed

Sep == 0           \* one of 。！？\n
KwOpen == 90       \* "[关键词:" : its letters are a word to the extractor
KwClose == 91      \* "]"
Comma == 92        \* ","
BrOpen == 93       \* "["
Ellipsis == 94     \* "..."

COMPRESSION_LEVELS ==
  [NONE |-> 0, LIGHT |-> 1, MEDIUM |-> 2, HEAVY |-> 3, SUMMARY |-> 4]

RECURSIVE TextsOfLen(_)
TextsOfLen(n) ==
  IF n = 0 THEN {<<>>}
  ELSE {Append(t, x) : t \in TextsOfLen(n - 1), x \in {Sep} \cup (1..MaxWord)}

\* every text of at most MaxTextLen tokens, the empty one included
CTexts == UNION {TextsOfLen(n) : n \in 0..MaxTextLen}

\* the length of a token in characters
Chars(tok) ==
  CASE tok \in 1..MaxWord -> 6
    [] tok = Sep      -> 1
    [] tok = KwOpen   -> 5
    [] tok = Ellipsis -> 3
    [] OTHER          -> 1

RECURSIVE SumChars(_)
SumChars(s) == IF s = <<>> THEN 0 ELSE Chars(Head(s)) + SumChars(Tail(s))

\* s.length of a run of tokens: a space stands between two words
Length(s) ==
  LET words == Cardinality({k \in 1..Len(s) : s[k] \in 1..MaxWord})
  IN  SumChars(s) + (IF words > 1 THEN words - 1 ELSE 0)

RECURSIVE Substring(_, _)
\* text.substring(0, n): the longest run of whole tokens within n characters
Substring(text, n) ==
  IF text = <<>> \/ Length(text) <= n THEN text
  ELSE Substring(SubSeq(text, 1, Len(text) - 1), n)

RECURSIVE SplitSentences(_)
\* text.split(/[。！？\n]/)
SplitSentences(text) ==
  LET seps == {k \in 1..Len(text) : text[k] = Sep}
  IN  IF seps = {} THEN <<text>>
      ELSE LET k == CHOOSE i \in seps : \A j \in seps : i <= j
           IN  <<SubSeq(text, 1, k - 1)>> \o SplitSentences(SubSeq(text, k + 1, Len(text)))

RECURSIVE Join(_, _)
\* parts.join(sep)
Join(parts, sep) ==
  IF parts = <<>> THEN <<>>
  ELSE IF Len(parts) = 1 THEN parts[1]
  ELSE parts[1] \o <<sep>> \o Join(Tail(parts), sep)

RECURSIVE JoinWords(_)
\* keywords.join(', ')
JoinWords(ws) ==
  IF ws = <<>> THEN <<>>
  ELSE IF Len(ws) = 1 THEN <<ws[1]>>
  ELSE <<ws[1], Comma>> \o JoinWords(Tail(ws))

RECURSIVE Distinct(_, _)
Distinct(ws, seen) ==
  IF ws = <<>> THEN <<>>
  ELSE IF Head(ws) \in seen THEN Distinct(Tail(ws), seen)
  ELSE <<Head(ws)>> \o Distinct(Tail(ws), seen \cup {Head(ws)})

\* KeywordExtractor.extract: the words of more than one letter, by falling
\* frequency, the first seen first among equals; the first `count` of them
extract(text, count) ==
  LET words == SelectSeq(text, LAMBDA x : x \in 1..MaxWord \/ x = KwOpen)
      keys == Distinct(words, {})
      freq == [k \in 1..Len(keys) |->
                 [word |-> keys[k],
                  score |-> Cardinality({j \in 1..Len(words) : words[j] = keys[k]})]]
      sorted == SortDesc(freq)
  IN  [k \in 1..Min(count, Len(sorted)) |-> sorted[k].word]

\* scoreSentence: length, digits (no word here has one), terms, openers
scoreSentence(sentence) ==
  LET len == Length(sentence)
  IN  (IF len > 10 /\ len < 100 THEN 3000 ELSE IF len >= 100 THEN 1000 ELSE 0)
        + (IF \E k \in 1..Len(sentence) : sentence[k] = 2 THEN 3000 ELSE 0)

\* extractKeySentences: the sentences of more than 5 characters, by falling
\* score, the first ceil(n * (1 - 0.2 level)) of them
extractKeySentences(text, level) ==
  LET sentences == SelectSeq(SplitSentences(text), LAMBDA s : Length(s) > 5)
      scored == SortDesc([k \in 1..Len(sentences) |->
                            [text |-> sentences[k], score |-> scoreSentence(sentences[k])]])
      count == (Len(sentences) * (10 - 2 * level) + 9) \div 10
  IN  [k \in 1..Min(count, Len(scored)) |-> scored[k].text]

compressLight(text, keywords) ==
  LET sentences == SplitSentences(text)
      importantSentences ==
        SelectSeq(sentences,
                  LAMBDA s : \E k \in 1..Len(keywords) : \E j \in 1..Len(s) : s[j] = keywords[k])
  IN  IF Len(importantSentences) > 0 THEN Join(importantSentences, Sep) \o <<Sep>>
      ELSE Substring(text, (Length(text) * 7 + 9) \div 10)

compressMedium(text, keywords, keySentences) ==
  <<KwOpen>> \o JoinWords(Slice(keywords, 3)) \o <<KwClose>>
    \o Join(Slice(keySentences, 2), Sep)

compressHeavy(text, keywords, keySentences) ==
  Substring(<<KwOpen>> \o JoinWords(Slice(keywords, 2)) \o <<KwClose>>
              \o (IF keySentences = <<>> THEN <<>> ELSE keySentences[1]),
            100)

generateSummary(text, keywords) ==
  <<BrOpen>> \o JoinWords(Slice(keywords, 2)) \o <<KwClose>>
    \o Substring(text, 50) \o <<Ellipsis>>

\* Math.pow(0.5, days / 30) for days 0..127
ThirtyDayCurve ==
  <<
    10000, 9771, 9548, 9330, 9117, 8908, 8705, 8506, 8312, 8122, 7937, 7755, 7578, 7405, 7236, 7071,
    6909, 6751, 6597, 6446, 6299, 6155, 6015, 5877, 5743, 5612, 5484, 5358, 5236, 5116, 5000, 4885,
    4774, 4665, 4558, 4454, 4352, 4253, 4156, 4061, 3968, 3877, 3789, 3702, 3618, 3535, 3454, 3375,
    3298, 3223, 3149, 3077, 3007, 2938, 2871, 2806, 2742, 2679, 2618, 2558, 2500, 2442, 2387, 2332,
    2279, 2227, 2176, 2126, 2078, 2030, 1984, 1938, 1894, 1851, 1809, 1767, 1727, 1687, 1649, 1611,
    1574, 1538, 1503, 1469, 1435, 1403, 1371, 1339, 1309, 1279, 1250, 1221, 1193, 1166, 1139, 1113,
    1088, 1063, 1039, 1015, 992, 969, 947, 925, 904, 883, 863, 843, 824, 805, 787, 769,
    751, 734, 717, 701, 685, 669, 654, 639, 625, 610, 596, 583, 569, 556, 544, 531
  >>

\* A record as the compressor and the tiered storage see it.  original_text
\* and keywords are <<>> and compression_level and storage_tier "undefined"
\* until they are assigned; lastUsedAt may be absent (NoTime).
CRecord(id, type, text, lastUsedAt) ==
  [ id |-> id, platform |-> "deepseek", namespace |-> "default", lstatus |-> "active",
    type |-> type, text |-> text, original_text |-> <<>>,
    compression_level |-> 0, keywords |-> <<>>, body_compressed |-> "undefined",
    importance |-> 7000, compressed |-> FALSE, usageCount |-> 0,
    sensitivity |-> "normal", lastUsedAt |-> lastUsedAt,
    storage_tier |-> "undefined" ]

\* evaluateImportance: usage, type weight, 30 day half life, sensitivity
evaluateImportance(memory, t) ==
  LET usage == Min(memory.usageCount * 1000, 4000)
      typeWeight == CASE memory.type = "pinned"   -> 10000
                      [] memory.type = "persona"  -> 8000
                      [] memory.type = "core"     -> 6000
                      [] memory.type = "episodic" -> 4000
                      [] OTHER                    -> 3000
      days == IF memory.lastUsedAt = NoTime THEN 127 ELSE Min(t - memory.lastUsedAt, 127)
      score == usage + typeWeight + (3 * ThirtyDayCurve[days + 1]) \div 10
      final == IF memory.sensitivity = "highly_sensitive" THEN (score * 7) \div 10 ELSE score
  IN  Min(final, One)

determineCompressionLevel(memory, t) ==
  LET importance == evaluateImportance(memory, t)
  IN  IF importance > 7000 THEN COMPRESSION_LEVELS.NONE
      ELSE IF importance > 5000 THEN COMPRESSION_LEVELS.LIGHT
      ELSE IF importance > 3000 THEN COMPRESSION_LEVELS.MEDIUM
      ELSE IF importance > 1500 THEN COMPRESSION_LEVELS.HEAVY
      ELSE COMPRESSION_LEVELS.SUMMARY

\* the switch of compress over the level, and the object it returns
compressAt(memory, text, compressionLevel, keywords, keySentences, t) ==
  [memory EXCEPT
     !.text = CASE compressionLevel = COMPRESSION_LEVELS.LIGHT ->
                     compressLight(text, keywords)
                [] compressionLevel = COMPRESSION_LEVELS.MEDIUM ->
                     compressMedium(text, keywords, keySentences)
                [] compressionLevel = COMPRESSION_LEVELS.HEAVY ->
                     compressHeavy(text, keywords, keySentences)
                [] compressionLevel = COMPRESSION_LEVELS.SUMMARY ->
                     generateSummary(text, keywords)
                [] OTHER -> text,
     !.original_text = text,
     !.compression_level = compressionLevel,
     !.keywords = keywords,
     !.importance = evaluateImportance(memory, t),
     !.compressed = TRUE]

\* compress once the level is settled: NONE returns the argument
compressWith(memory, compressionLevel, t) ==
  IF compressionLevel = COMPRESSION_LEVELS.NONE THEN memory
  ELSE compressAt(memory, memory.text, compressionLevel, extract(memory.text, 5),
                  extractKeySentences(memory.text, compressionLevel), t)

\* compress(memory, level): the argument itself for an empty text; a level of
\* 0 or null is falsy, so the level is then chosen by importance
compress(memory, level, t) ==
  IF memory.text = <<>> THEN memory
  ELSE compressWith(memory,
                    IF level # 0 THEN level ELSE determineCompressionLevel(memory, t), t)

decompressKeepsText(memory) == memory

\* decompress(memory): the record itself when it has no original_text
decompress(memory) ==
  IF memory.original_text = <<>> THEN memory
  ELSE [memory EXCEPT !.text = memory.original_text, !.body_compressed = "false"]

\* A caller holding one record: it builds it, compresses it, decompresses it
CompressorTypes == {"persona", "episodic"}

CNew(text, type) ==
  /\ crec.op = "none"
  /\ crec' = [op |-> "new", n |-> 0, level |-> 0, before |-> <<>>,
              rec |-> CRecord(1, type, text, now)]
  /\ last' = [op |-> "createRecord"]
  /\ UNCHANGED <<engineVars, now, tierVars, writes, backend, experiment>>

\* compress(rec, level); before is the text the record had going in
Compress(level) ==
  /\ crec.op # "none"
  /\ crec.n < MaxCompressions
  /\ crec' = [op |-> "compress", n |-> crec.n + 1, level |-> level,
              before |-> crec.rec.text, rec |-> compress(crec.rec, level, now)]
  /\ last' = [op |-> "compress"]
  /\ UNCHANGED <<engineVars, now, tierVars, writes, backend, experiment>>

\* decompress(rec) of a record just built or just compressed
Decompress ==
  /\ crec.op \in {"new", "compress"}
  /\ crec' = [op |-> "decompress", n |-> crec.n, level |-> crec.level,
              before |-> crec.before, input |-> crec.rec, rec |-> decompress(crec.rec)]
  /\ last' = [op |-> "decompress"]
  /\ UNCHANGED <<engineVars, now, tierVars, writes, backend, experiment>>

NextCompress ==
  \/ \E text \in CTexts, type \in CompressorTypes : CNew(text, type)
  \/ \E level \in 0..4 : Compress(level)
  \/ Decompress

SpecCompress == Init /\ [][NextCompress]_vars

-----------------------------------------------------------------------------
(* storage/hierarchical.js: HierarchicalStorage *)

\* The three places a record is kept: the in-memory Map and the two file stores
Tiers(hot, warm, cold) == [hot |-> hot, warm |-> warm, cold |-> cold]

\* determineTier with the bounds of the ages taken inclusive
determineTierInclusive(memory, t) ==
  LET lastUsed == IF memory.lastUsedAt = NoTime THEN t ELSE memory.lastUsedAt
      age == t - lastUsed
  IN  IF age <= 7 THEN "hot" ELSE IF age <= 30 THEN "warm" ELSE "cold"

\* determineTier: by the age of the last use, under 7 days hot, under 30 warm
determineTier(memory, t) ==
  LET lastUsed == IF memory.lastUsedAt = NoTime THEN t ELSE memory.lastUsedAt
      age == t - lastUsed
  IN  IF age < 7 THEN "hot" ELSE IF age < 30 THEN "warm" ELSE "cold"

\* getCompressionLevel: `levels[tier] || MEDIUM`, and the level of hot is 0
getCompressionLevel(tier) ==
  LET levels == [hot |-> COMPRESSION_LEVELS.NONE, warm |-> COMPRESSION_LEVELS.MEDIUM,
                 cold |-> COMPRESSION_LEVELS.SUMMARY]
  IN  OrDefault(levels[tier], COMPRESSION_LEVELS.MEDIUM)

\* compress hands back its argument, the same object, in these cases; in all
\* others the result is a new object
compressReturnsArgument(memory, level, t) ==
  \/ memory.text = <<>>
  \/ (IF level # 0 THEN level ELSE determineCompressionLevel(memory, t))
       = COMPRESSION_LEVELS.NONE

Put(map, memory) == (memory.id :> memory) @@ map
Remove(map, id) == [i \in DOMAIN map \ {id} |-> map[i]]

\* the end of storeToTier: the compressed record, stamped with its tier, is
\* put in the tier's place.  When compress returned the cached object itself
\* (aliased), the stamp shows in the cache.
storeProcessed(T, processed, tier, aliased) ==
  [ tiers |->
      CASE tier = "hot" -> [T EXCEPT !.hot = Put(T.hot, processed)]
        [] tier = "warm" ->
             [T EXCEPT !.warm = Put(T.warm, processed),
                       !.hot = IF aliased THEN Put(T.hot, processed) ELSE T.hot]
        [] OTHER ->
             [T EXCEPT !.cold = Put(T.cold, processed),
                       !.hot = IF aliased THEN Put(T.hot, processed) ELSE T.hot],
    processed |-> processed ]

\* storeToTier: compress by the tier's level, stamp the tier, store
storeToTier(T, memory, tier, t) ==
  storeProcessed(T,
                 [compress(memory, getCompressionLevel(tier), t) EXCEPT !.storage_tier = tier],
                 tier,
                 /\ compressReturnsArgument(memory, getCompressionLevel(tier), t)
                 /\ memory.id \in DOMAIN T.hot
                 /\ T.hot[memory.id] = memory)

\* the record leaves the place of its current tier
removeFromTier(T, id, currentTier) ==
  CASE currentTier = "hot"  -> [T EXCEPT !.hot = Remove(T.hot, id)]
    [] currentTier = "warm" -> [T EXCEPT !.warm = Remove(T.warm, id)]
    [] OTHER                -> [T EXCEPT !.cold = Remove(T.cold, id)]

tierOf(memory) ==
  IF memory.storage_tier = "undefined" THEN "hot" ELSE memory.storage_tier

\* migrateToTier: nothing at all for a record the Map does not hold
migrateToTier(T, id, targetTier, t) ==
  IF id \notin DOMAIN T.hot THEN T
  ELSE IF tierOf(T.hot[id]) = targetTier THEN T
  ELSE storeToTier(removeFromTier(T, id, tierOf(T.hot[id])), T.hot[id], targetTier, t).tiers

\* touch: stamp the time of use on the cached object, migrate if its tier changed
touch(T, id, t) ==
  IF id \notin DOMAIN T.hot THEN T
  ELSE IF determineTier([T.hot[id] EXCEPT !.lastUsedAt = t], t) # T.hot[id].storage_tier
  THEN migrateToTier([T EXCEPT !.hot[id].lastUsedAt = t], id,
                     determineTier([T.hot[id] EXCEPT !.lastUsedAt = t], t), t)
  ELSE [T EXCEPT !.hot[id].lastUsedAt = t]

Undefined == [id |-> NoId]

\* what get returns on a cache hit: the object fetched before touch, with the
\* time of use touch stamped on it; it shows the new tier only when it is
\* still the object the Map holds
returnedFromCache(T1, mem, id, t) ==
  IF id \in DOMAIN T1.hot /\ compressReturnsArgument(mem, getCompressionLevel("hot"), t)
  THEN T1.hot[id] ELSE mem

\* what get returns on a cache miss: `this.hotCache.get(id)`
returnedFromMap(T1, id) ==
  [tiers |-> T1, returned |-> IF id \in DOMAIN T1.hot THEN T1.hot[id] ELSE Undefined]

\* get: the cached object after touch; else, for a record of the warm or the
\* cold store, migrateToTier and then whatever the Map holds
get(T, id, t) ==
  IF id \in DOMAIN T.hot
  THEN [tiers |-> touch(T, id, t),
        returned |-> returnedFromCache(touch(T, id, t),
                                       [T.hot[id] EXCEPT !.lastUsedAt = t], id, t)]
  ELSE IF id \in DOMAIN T.warm THEN returnedFromMap(migrateToTier(T, id, "hot", t), id)
  ELSE IF id \in DOMAIN T.cold THEN returnedFromMap(migrateToTier(T, id, "warm", t), id)
  ELSE [tiers |-> T, returned |-> Undefined]

\* the end of add: `this.hotCache.set(stored.meta.id, stored)`
cacheStored(r) == [r.tiers EXCEPT !.hot = Put(r.tiers.hot, r.processed)]

\* add: store in the tier of the record's age, then cache what was stored
add(T, memory, t) == cacheStored(storeToTier(T, memory, determineTier(memory, t), t))

\* update: the record as given is put in the place of the tier of its age,
\* then the cached record of that id, if its tier is not hot, migrates to hot
update(T, memory, t) ==
  migrateToTier(
    CASE determineTier(memory, t) = "hot"  -> [T EXCEPT !.hot = Put(T.hot, memory)]
      [] determineTier(memory, t) = "warm" -> [T EXCEPT !.warm = StoreUpdate(T.warm, memory)]
      [] OTHER                             -> [T EXCEPT !.cold = StoreUpdate(T.cold, memory)],
    memory.id, "hot", t)

RECURSIVE CycleLoop(_, _, _)
\* the loop of runCompressionCycle over the objects the Map held at its start
CycleLoop(T, ids, t) ==
  IF ids = <<>> THEN T
  ELSE IF Head(ids) \notin DOMAIN T.hot THEN CycleLoop(T, Tail(ids), t)
  ELSE IF tierOf(T.hot[Head(ids)]) # determineTier(T.hot[Head(ids)], t)
  THEN CycleLoop(migrateToTier(T, Head(ids), determineTier(T.hot[Head(ids)], t), t),
                 Tail(ids), t)
  ELSE CycleLoop(T, Tail(ids), t)

runCompressionCycle(T, t) == CycleLoop(T, SortedSeq(DOMAIN T.hot), t)

\* rebuildCache into an empty Map: the warm records, then the cold ones
rebuildCache(T) == [T EXCEPT !.hot = T.cold @@ T.warm]

\* HierarchicalStorage.matchesFilters: the keys status, platform, type and tier;
\* any other key, namespace among them, is passed over
tierMatchesFilters(memory, filters) ==
  /\ filters.status = NoFilter \/ memory.lstatus = filters.status
  /\ filters.platform = NoFilter \/ memory.platform = filters.platform
  /\ filters.type = NoFilter \/ memory.type = filters.type
  /\ filters.tier = NoFilter \/ memory.storage_tier = filters.tier

\* query(filters): the cached records that match, and with includeAllTiers
\* those the warm and the cold store give for the same filters that no earlier
\* result has the id of
query(T, filters) ==
  LET hotResults == {T.hot[i] : i \in {j \in DOMAIN T.hot : tierMatchesFilters(T.hot[j], filters)}}
      hotIds == {m.id : m \in hotResults}
      warmResults == {T.warm[i] : i \in {j \in DOMAIN T.warm \ hotIds :
                                            matchesFilters(T.warm[j], filters)}}
      warmIds == {m.id : m \in warmResults}
      coldResults == {T.cold[i] : i \in {j \in DOMAIN T.cold \ (hotIds \cup warmIds) :
                                            matchesFilters(T.cold[j], filters)}}
  IN  IF filters.includeAllTiers THEN hotResults \cup warmResults \cup coldResults
      ELSE hotResults

-----------------------------------------------------------------------------
(* The tiered storage as its callers drive it *)

CurrentTiers == Tiers(hotCache, warmStore, coldStore)

SetTiers(T) ==
  /\ hotCache' = T.hot
  /\ warmStore' = T.warm
  /\ coldStore' = T.cold

\* records handed to add: with a text of two sentences or none, last used at
\* day 0 or never
TierRecords ==
  { CRecord(id, "episodic", text, lastUsedAt) :
      id \in 1..MaxId, text \in {<<1, 2, Sep, 1>>, <<>>}, lastUsedAt \in {0, NoTime} }

MaxStoredText == 10   \* get and the cycle stop once a stored text is longer

\* every migration compresses again and the text grows without end: the
\* calls that migrate are followed only while the texts are short
TextsBounded ==
  \A map \in {hotCache, warmStore, coldStore} :
    \A i \in DOMAIN map : Len(map[i].text) <= MaxStoredText

TierAdd(memory) ==
  /\ SetTiers(add(CurrentTiers, memory, now))
  /\ last' = [op |-> "add", id |-> memory.id]
  /\ UNCHANGED <<engineVars, now, crec, writes, backend, experiment>>

TierGet(id) ==
  LET r == get(CurrentTiers, id, now)
  IN  /\ TextsBounded
      /\ SetTiers(r.tiers)
      /\ last' = [op |-> "get", id |-> id, returned |-> r.returned]
      /\ UNCHANGED <<engineVars, now, crec, writes, backend, experiment>>

RunCompressionCycle ==
  /\ TextsBounded
  /\ SetTiers(runCompressionCycle(CurrentTiers, now))
  /\ last' = [op |-> "runCompressionCycle"]
  /\ UNCHANGED <<engineVars, now, crec, writes, backend, experiment>>

TierUpdate(memory) ==
  /\ TextsBounded
  /\ SetTiers(update(CurrentTiers, memory, now))
  /\ last' = [op |-> "update", id |-> memory.id, given |-> memory]
  /\ UNCHANGED <<engineVars, now, crec, writes, backend, experiment>>

\* delete(id)
TierDelete(id) ==
  /\ SetTiers(Tiers(Remove(hotCache, id), Remove(warmStore, id), Remove(coldStore, id)))
  /\ last' = [op |-> "delete", id |-> id]
  /\ UNCHANGED <<engineVars, now, crec, writes, backend, experiment>>

\* the process ends; a new HierarchicalStorage over the same files runs init()
Restart ==
  /\ SetTiers(rebuildCache(Tiers(EmptyStore, warmStore, coldStore)))
  /\ last' = [op |-> "init"]
  /\ UNCHANGED <<engineVars, now, crec, writes, backend, experiment>>

NextTier ==
  \/ \E m \in TierRecords : TierAdd(m)
  \/ \E id \in 1..MaxId : TierGet(id)
  \/ RunCompressionCycle
  \/ \E id \in 1..MaxId : TierDelete(id)
  \/ Restart
  \/ Tick

SpecTier == Init /\ [][NextTier]_vars

\* add and update as the clock advances
NextUpdate ==
  \/ \E m \in TierRecords : TierAdd(m)
  \/ \E m \in TierRecords : TierUpdate(m)
  \/ Tick

SpecUpdate == Init /\ [][NextUpdate]_vars

\* records handed to determineTier: of either id, type and text, never used
\* or last used at day 0 or at the days that are 6, 7, 29 and 30 days before
\* the first and the second advance of the clock
ClassifyRecords ==
  { CRecord(id, type, text, lastUsedAt) :
      id \in 1..MaxId, type \in {"episodic", "persona"}, text \in {<<1, 2, Sep, 1>>, <<>>},
      lastUsedAt \in {0, TickDays - 6, TickDays - 7, 2 * TickDays - 29,
                      2 * TickDays - 30, NoTime} }

\* determineTier(memory) at the present time
DetermineTierCall(memory) ==
  /\ last' = [op |-> "determineTier", given |-> memory, at |-> now,
              returned |-> determineTier(memory, now)]
  /\ UNCHANGED <<engineVars, now, tierVars, crec, writes, backend, experiment>>

NextClassify ==
  \/ \E m \in ClassifyRecords : DetermineTierCall(m)
  \/ Tick

SpecClassify == Init /\ [][NextClassify]_vars

-----------------------------------------------------------------------------
(* The retriever: retrieveMemories and its sort *)

\* typePriority of retrieveMemories, in units of 1/10000
typePriority(type) ==
  CASE type = "pinned"   -> 30000
    [] type = "persona"  -> 20000
    [] type = "core"     -> 15000
    [] type = "episodic" -> 10000
    [] OTHER             -> 0

\* the retriever's calculateRecallScore: 0.35 keyword + 0.25 priority +
\* 0.2 time decay + 0.1 platform weight + 0.1 * typePriority / 3
retrieverRecallScore(input, memory, t) ==
  ( 35 * calculateKeywordSimilarity(input, memory.text)
      + 25 * OrDefault(memory.recall_priority, 5000)
      + 20 * calculateTimeDecay(memory.lastUsedAt, t)
      + 10 * One
      + 10 * (OrDefault(typePriority(memory.type), One) \div 3) ) \div 100

\* memories.map(...): each record with its recallScore and v5Probability
retrieverScored(input, memories, t) ==
  [k \in 1..Len(memories) |->
     [mem |-> memories[k],
      recallScore |-> retrieverRecallScore(input, memories[k], t),
      v5Probability |-> v5Formula(retrieverRecallScore(input, memories[k], t), 8500, 5000)]]

\* scored.filter(m => m.recallScore >= threshold), threshold 0.5
retrieverFiltered(scored) == SelectSeq(scored, LAMBDA m : m.recallScore >= 5000)

\* the comparator handed to sort: negative when a goes first.  Scores more
\* than 0.1 apart decide; else the type priority; else the time of last use.
retrieverCompare(a, b) ==
  IF b.recallScore - a.recallScore > 1000 \/ a.recallScore - b.recallScore > 1000
  THEN b.recallScore - a.recallScore
  ELSE IF typePriority(b.mem.type) # typePriority(a.mem.type)
  THEN typePriority(b.mem.type) - typePriority(a.mem.type)
  ELSE b.mem.lastUsedAt - a.mem.lastUsedAt

\* a consistent comparator on the items of s: its ties are an equivalence and
\* the classes of tied items are totally ordered (ECMAScript, Array.prototype.sort)
ConsistentComparator(s) ==
  \A i, j, k \in 1..Len(s) :
    /\ (retrieverCompare(s[i], s[j]) = 0 /\ retrieverCompare(s[j], s[k]) = 0)
         => retrieverCompare(s[i], s[k]) = 0
    /\ (retrieverCompare(s[i], s[j]) < 0 /\ retrieverCompare(s[j], s[k]) <= 0)
         => retrieverCompare(s[i], s[k]) < 0
    /\ (retrieverCompare(s[i], s[j]) <= 0 /\ retrieverCompare(s[j], s[k]) < 0)
         => retrieverCompare(s[i], s[k]) < 0

\* the orders of the positions of s
Orders(s) == {p \in [1..Len(s) -> 1..Len(s)] : \A i, j \in 1..Len(s) : p[i] = p[j] => i = j}

\* Array.prototype.sort with the comparator: the items in ascending order of
\* the comparator, tied items in their first order.  With a comparator that is
\* not consistent the order is implementation-defined: any order of the items.
SortOutcomes(s) ==
  { [k \in 1..Len(s) |-> s[p[k]]] :
      p \in IF ConsistentComparator(s)
            THEN { q \in Orders(s) :
                     \A i, j \in 1..Len(s) :
                       i < j => \/ retrieverCompare(s[q[i]], s[q[j]]) < 0
                                \/ /\ retrieverCompare(s[q[i]], s[q[j]]) = 0
                                   /\ q[i] < q[j] }
            ELSE Orders(s) }

\* the records the retriever is given, all used one advance of the clock
\* after the start but the last, used a day earlier:
\*   a pinned, shares no word with the input, priority 0.8
\*   b persona, a third of the words shared, priority 0.8
\*   c episodic, the words of the input, priority 0.3
\*   d as c, last used a day before
RetrieverRecords ==
  { [Memory(1, {7, 8}, "pinned", "deepseek", 8000, 7000, 8000, NoTime)
       EXCEPT !.lastUsedAt = TickDays],
    [Memory(2, {1, 2, 7, 8}, "persona", "deepseek", 8000, 7000, 8000, NoTime)
       EXCEPT !.lastUsedAt = TickDays],
    [Memory(3, TextA, "episodic", "deepseek", 8000, 7000, 3000, NoTime)
       EXCEPT !.lastUsedAt = TickDays],
    [Memory(4, TextA, "episodic", "deepseek", 8000, 7000, 3000, NoTime)
       EXCEPT !.lastUsedAt = TickDays - 1] }

\* the lists of distinct records
RetrieverLists ==
  UNION { {s \in [1..n -> RetrieverRecords] : \A i, j \in 1..n : s[i] = s[j] => i = j} :
            n \in 0..Cardinality(RetrieverRecords) }

\* retrieveMemories(input, memories) with the default config, once the
\* records have been used
RetrieveMemories(input, memories) ==
  /\ now >= TickDays
  /\ IF input = {} \/ memories = <<>>
     THEN last' = [op |-> "retrieveMemories", memories |-> memories, returned |-> <<>>]
     ELSE \E sorted \in SortOutcomes(retrieverFiltered(retrieverScored(input, memories, now))) :
            last' = [op |-> "retrieveMemories", memories |-> memories,
                     returned |-> Slice(sorted, 20)]
  /\ UNCHANGED <<engineVars, now, tierVars, crec, writes, backend, experiment>>

NextRetrieve ==
  \/ \E input \in {TextA, {}}, memories \in RetrieverLists : RetrieveMemories(input, memories)
  \/ Tick

SpecRetrieve == Init /\ [][NextRetrieve]_vars

-----------------------------------------------------------------------------
(* injector.js: injectMemory and buildContext *)

\* a line of a rendered text: the fixed header, the meta-info line, the label
\* of a section, an item "• text", the rule, the separator "---", or the
\* user's input (which the deepseek adapter prefixes)
Line(kind, type, text) == [kind |-> kind, type |-> type, text |-> text]

\* the bucket a record is pushed to: `m.body.type || 'episodic'`
bucketOf(m) == IF m.type = "" THEN "episodic" ELSE m.type

\* a section with a label for every bucket, even one without records
injectorSectionAlways(memories, type) ==
  << Line("label", type, {}) >>
    \o [k \in 1..Len(SelectSeq(memories, LAMBDA m : bucketOf(m) = type)) |->
          Line("item", type, SelectSeq(memories, LAMBDA m : bucketOf(m) = type)[k].text)]

\* `if (byType.t.length)`: the label of the bucket and an item per record
injectorSection(memories, type) ==
  IF SelectSeq(memories, LAMBDA m : bucketOf(m) = type) = <<>> THEN <<>>
  ELSE << Line("label", type, {}) >>
         \o [k \in 1..Len(SelectSeq(memories, LAMBDA m : bucketOf(m) = type)) |->
               Line("item", type, SelectSeq(memories, LAMBDA m : bucketOf(m) = type)[k].text)]

\* injector.js buildContext
injectorBuildContext(memories) ==
  << Line("header", "", {}), Line("meta", "", {}) >>
    \o injectorSection(memories, "pinned") \o injectorSection(memories, "persona")
    \o injectorSection(memories, "core") \o injectorSection(memories, "episodic")
    \o << Line("rule", "", {}) >>

\* adapter.inject(input, context) of the adapters of injector.js, which is
\* what defaultInject does but for the prefix the deepseek adapter puts
adapterInject(adapterName, input, context) ==
  context \o << Line("separator", "", {}),
                Line(IF adapterName = "deepseek" THEN "prefixed input" ELSE "input", "", input) >>

\* injectMemory(input, memories, adapter)
injectorInjectMemory(input, memories, adapterName) ==
  IF memories = <<>>
  THEN [original |-> <<Line("input", "", input)>>, injected |-> <<Line("input", "", input)>>,
        memories |-> 0, adapter |-> adapterName]
  ELSE [original |-> <<Line("input", "", input)>>,
        injected |-> adapterInject(adapterName, input, injectorBuildContext(memories)),
        memories |-> Len(memories), adapter |-> adapterName]

\* the records that are selected: those of the retriever and a core record
ContextRecords ==
  RetrieverRecords
    \cup { Memory(5, TextB, "core", "deepseek", 8000, 7000, 8000, NoTime) }

\* the lists of distinct selected records
ContextLists ==
  UNION { {s \in [1..n -> ContextRecords] : \A i, j \in 1..n : s[i] = s[j] => i = j} :
            n \in 0..Cardinality(ContextRecords) }

\* injectMemory(input, memories, adapter)
InjectMemoryCall(input, memories, adapterName) ==
  /\ last' = [op |-> "injectMemory", given |-> memories,
              returned |-> injectorInjectMemory(input, memories, adapterName)]
  /\ UNCHANGED <<engineVars, now, tierVars, crec, writes, backend, experiment>>

\* engine.buildContext(memories) of the selected records with their scores
BuildContextCall(memories) ==
  /\ last' = [op |-> "buildContext", given |-> memories,
              returned |-> buildContext([k \in 1..Len(memories) |->
                                           [mem |-> memories[k], score |-> One]])]
  /\ UNCHANGED <<engineVars, now, tierVars, crec, writes, backend, experiment>>

NextContext ==
  \/ \E memories \in ContextLists, adapterName \in {"deepseek", "chatgpt"} :
       InjectMemoryCall(TextA, memories, adapterName)
  \/ \E memories \in ContextLists : BuildContextCall(memories)

SpecContext == Init /\ [][NextContext]_vars

-----------------------------------------------------------------------------
(* scorer.js: v5Formula for any gamma and barrier *)

\* A JavaScript value handed to v5Formula or returned by it: a number in units
\* of 1/10000, or null, undefined or NaN
JSNumber(n) == [kind |-> "number", n |-> n]
JSNull == [kind |-> "null", n |-> 0]
JSUndefined == [kind |-> "undefined", n |-> 0]
JSNaN == [kind |-> "NaN", n |-> 0]

\* ToNumber, as Math.min applies it to its arguments: null is 0, undefined is NaN
ToNumber(value) ==
  CASE value.kind = "number" -> value
    [] value.kind = "null"   -> JSNumber(0)
    [] OTHER                 -> JSNaN

\* the values of 2 * gamma * (input - barrier), in units of 1/1000000, at
\* which 1 / (1 + Math.exp(-z)) is tabulated
SigmoidArguments ==
  <<
     -32500000, -30000000, -27500000, -26000000, -25000000, -24000000, -22500000, -22000000, -20000000, -18000000,
     -12500000, -11050000, -11000000, -10200000, -10000000, -9350000, -9000000, -8500000, -8000000, -7650000,
     -7500000, -7000000, -6250000, -6000000, -5000000, -4999500, -4250000, -4000000, -3999600, -3750000,
     -3400000, -3000000, -2999800, -2550000, -2500500, -2500000, -2499500, -2125000, -2000400, -2000200,
     -2000000, -1999800, -1999600, -1700000, -1699830, -1500000, -1300000, -1275000, -1250000, -1200000,
     -1100000, -1000200, -1000000, -999800, -900000, -850170, -850000, -849830, -500000, -425000,
     -400000, -300000, -250000, -200000, -199980, -150000, -100020, -100000, -99980, -50000,
     -500, -400, -200, -170, -20, 0, 20, 170, 200, 400,
     500, 50000, 99980, 100000, 100020, 150000, 199980, 200000, 200020, 250000,
     299980, 300000, 400000, 425000, 500000, 700000, 800000, 849830, 850000, 850170,
     900000, 999800, 1000000, 1000200, 1100000, 1250000, 1275000, 1500000, 1699830, 1700000,
     1700170, 1999600, 1999800, 2000000, 2000400, 2125000, 2499500, 2500000, 2500500, 2549830,
     2550000, 3000000, 3400000, 3750000, 3999600, 4000000, 4000400, 4250000, 4999500, 5000000,
     5000500, 5950000, 5999600, 6000000, 6250000, 6800000, 7499500, 7500000, 7650000, 8000000,
     8500000, 9000000, 9350000, 10000000, 11000000, 12000000, 12500000, 13000000, 14000000, 16000000,
     17500000, 18000000, 20000000, 22000000, 22500000, 25000000, 27500000
  >>

\* parseFloat((1 / (1 + Math.exp(-z))).toFixed(4)) at those values
SigmoidValues ==
  <<
     0, 0, 0, 0, 0, 0, 0, 0, 0, 0,
     0, 0, 0, 0, 0, 1, 1, 2, 3, 5,
     6, 9, 19, 25, 67, 67, 141, 180, 180, 230,
     323, 474, 474, 724, 758, 759, 759, 1067, 1192, 1192,
     1192, 1192, 1192, 1545, 1545, 1824, 2142, 2184, 2227, 2315,
     2497, 2689, 2689, 2690, 2891, 2994, 2994, 2995, 3775, 3953,
     4013, 4256, 4378, 4502, 4502, 4626, 4750, 4750, 4750, 4875,
     4999, 4999, 5000, 5000, 5000, 5000, 5000, 5000, 5000, 5001,
     5001, 5125, 5250, 5250, 5250, 5374, 5498, 5498, 5498, 5622,
     5744, 5744, 5987, 6047, 6225, 6682, 6900, 7005, 7006, 7006,
     7109, 7310, 7311, 7311, 7503, 7773, 7816, 8176, 8455, 8455,
     8456, 8808, 8808, 8808, 8808, 8933, 9241, 9241, 9242, 9276,
     9276, 9526, 9677, 9770, 9820, 9820, 9820, 9859, 9933, 9933,
     9933, 9974, 9975, 9975, 9981, 9989, 9994, 9994, 9995, 9997,
     9998, 9999, 9999, 10000, 10000, 10000, 10000, 10000, 10000, 10000,
     10000, 10000, 10000, 10000, 10000, 10000, 10000
  >>

\* p = 1 / (1 + Math.exp(exponent)), kept to 4 decimals
SigmoidFixed4(exponent) ==
  SigmoidValues[CHOOSE k \in 1..Len(SigmoidArguments) : SigmoidArguments[k] = -exponent]

\* v5Formula with the input taken as it is given
v5FormulaUnclamped(input, gamma, barrier) ==
  IF ToNumber(input).kind = "NaN" THEN JSNaN
  ELSE JSNumber(SigmoidFixed4(-2 * (gamma \div 100) * (ToNumber(input).n - barrier)))

\* v5Formula(input, gamma, barrier): Math.max(0, Math.min(1, input)), which is
\* NaN for a NaN; the exponent -2 * gamma * (normalizedInput - barrier); the
\* sigmoid to 4 decimals.  gamma and barrier are numbers in units of 1/10000,
\* gamma a whole number of hundredths.  Nothing is done to gamma or barrier.
v5FormulaExact(input, gamma, barrier) ==
  IF ToNumber(input).kind = "NaN" THEN JSNaN
  ELSE JSNumber(SigmoidFixed4(-2 * (gamma \div 100)
                                * (Max(0, Min(One, ToNumber(input).n)) - barrier)))

\* the inputs, gammas and barriers of the calls: inputs from -5 to 5 with two
\* that are 0.0001 apart, and the three values that are no number; the
\* gammas -1, 0, 0.1, 0.85, 2, 2.5; the barriers -0.5, 0, 0.5, 1, 1.5
ScorerInputs ==
  {JSNumber(n) : n \in {-50000, -10000, 0, 2500, 5000, 5001, 7500, 9999, 10000,
                        20000, 50000}}
    \cup {JSNull, JSUndefined, JSNaN}
ScorerGammas == {-10000, 0, 1000, 8500, 20000, 25000}
ScorerBarriers == {-5000, 0, 5000, 10000, 15000}

\* v5Formula(input, gamma, barrier)
V5FormulaCall(input, gamma, barrier) ==
  /\ last' = [op |-> "v5Formula", input |-> input, gamma |-> gamma, barrier |-> barrier,
              returned |-> v5FormulaExact(input, gamma, barrier)]
  /\ UNCHANGED <<engineVars, now, tierVars, crec, writes, backend, experiment>>

NextScorer ==
  \E input \in ScorerInputs, gamma \in ScorerGammas, barrier \in ScorerBarriers :
    V5FormulaCall(input, gamma, barrier)

SpecScorer == Init /\ [][NextScorer]_vars

-----------------------------------------------------------------------------
(* injector.js: semanticRetrieve *)

\* retrieveMemories(input, memories) with the default config: the arrays it
\* can return
retrieveMemories(input, memories, t) ==
  IF input = {} \/ memories = <<>> THEN {<<>>}
  ELSE {Slice(sorted, 20) :
          sorted \in SortOutcomes(retrieverFiltered(retrieverScored(input, memories, t)))}

\* The embeddingService argument: left out, one whose embed resolves, one
\* whose embed rejects
EmbeddingServices == {"absent", "working", "failing"}

\* memory.embedding || memory._embedding: a record as createMemoryEntry builds
\* it carries neither, and its semanticScore is 0
semanticScored(memories) ==
  [k \in 1..Len(memories) |-> [mem |-> memories[k], semanticScore |-> 0]]

\* .filter(m => m.semanticScore >= 0.7).sort(...): one score for all, the
\* stable sort keeps the order
semanticFiltered(scored) == SelectSeq(scored, LAMBDA m : m.semanticScore >= 7000)

\* semanticRetrieve(input, memories, embeddingService): the outcomes.  A
\* rejected embed is awaited outside any try and rejects the call.
semanticRetrieve(input, memories, embeddingService, t) ==
  CASE embeddingService = "absent" ->
         {[threw |-> FALSE, returned |-> r] : r \in retrieveMemories(input, memories, t)}
    [] embeddingService = "failing" -> {[threw |-> TRUE, returned |-> <<>>]}
    [] OTHER ->
         {[threw |-> FALSE,
           returned |-> [k \in 1..Len(semanticFiltered(semanticScored(memories))) |->
                           semanticFiltered(semanticScored(memories))[k].mem]]}

SemanticRetrieve(input, memories, embeddingService) ==
  /\ now >= TickDays
  /\ \E o \in semanticRetrieve(input, memories, embeddingService, now) :
       last' = [op |-> "semanticRetrieve", input |-> input, memories |-> memories,
                embeddingService |-> embeddingService,
                threw |-> o.threw, returned |-> o.returned]
  /\ UNCHANGED <<engineVars, now, tierVars, crec, writes, backend, experiment>>

\* A call depends on nothing but its arguments and the clock: one call per
\* advance of the clock
NextSemantic ==
  \/ /\ last.op # "semanticRetrieve"
     /\ \E input \in {TextA, {}}, memories \in RetrieverLists, e \in EmbeddingServices :
          SemanticRetrieve(input, memories, e)
  \/ Tick

SpecSemantic == Init /\ [][NextSemantic]_vars

-----------------------------------------------------------------------------
(* extractor.js: extractMemory on a response text *)

\* A response text is a sequence of tokens.  A token stands for the characters
\* of one literal of the patterns (written here in pinyin), or for one other
\* character.
LikeTok == "wo xi huan"
MyTok == "wo de"
NeedTok == "wo xu yao"
AboutTok == "guan yu"
IsTok == "shi"
StopTok == "."
CommaTok == ","
SpaceTok == " "

\* text.length of a token
CharLen(tok) ==
  CASE tok \in {LikeTok, NeedTok} -> 3
    [] tok \in {MyTok, AboutTok} -> 2
    [] OTHER -> 1

RECURSIVE TextLength(_)
TextLength(text) == IF text = <<>> THEN 0 ELSE CharLen(Head(text)) + TextLength(Tail(text))

\* Response texts: up to MaxClauses clauses, each an opening literal or none,
\* a body and a closing mark or none
MaxClauses == 2
ClauseOpeners == {<<LikeTok>>, <<MyTok>>, <<NeedTok>>, <<AboutTok>>, <<>>}
ClauseBodies == {<<"a">>, <<"A", SpaceTok>>, <<"a", IsTok, "a">>}
ClauseClosers == {<<StopTok>>, <<CommaTok>>, <<>>}
Clauses == {o \o b \o c : o \in ClauseOpeners, b \in ClauseBodies, c \in ClauseClosers}

RECURSIVE TextsOfClauses(_)
TextsOfClauses(n) ==
  IF n = 0 THEN {<<>>}
  ELSE TextsOfClauses(n - 1) \cup {t \o c : t \in TextsOfClauses(n - 1), c \in Clauses}

ResponseTexts == TextsOfClauses(MaxClauses)

\* A pattern: its memory type, its g flag and its elements, each a class of
\* characters or the lazy group (.+?)
Class(set) == [lazy |-> FALSE, set |-> set]
LazyGroup == [lazy |-> TRUE, set |-> {}]
Pattern(type, global, elems) == [type |-> type, global |-> global, elems |-> elems]

\* The patterns of extractCandidates whose literals occur in ResponseTexts, in
\* the order the function runs them.  The fifth persona pattern has no g flag.
extractorPatterns ==
  << Pattern("persona", TRUE, <<Class({LikeTok}), LazyGroup, Class({StopTok, CommaTok})>>),
     Pattern("persona", FALSE, <<Class({MyTok}), LazyGroup, Class({IsTok}), LazyGroup,
                                 Class({CommaTok, StopTok})>>),
     Pattern("core", TRUE, <<Class({NeedTok}), LazyGroup, Class({StopTok, CommaTok})>>),
     Pattern("episodic", TRUE, <<Class({AboutTok}), LazyGroup, Class({CommaTok})>>) >>

SetMin(S) == CHOOSE x \in S : \A y \in S : x <= y

RECURSIVE MatchEnd(_, _, _)
\* The position after the match of elems at pos, 0 for no match.  A lazy group
\* takes the fewest characters that let the rest match.
MatchEnd(elems, text, pos) ==
  IF elems = <<>> THEN pos
  ELSE IF Head(elems).lazy
       THEN LET ks == {k \in 1..(Len(text) - pos + 1) :
                         MatchEnd(Tail(elems), text, pos + k) # 0}
            IN  IF ks = {} THEN 0 ELSE MatchEnd(Tail(elems), text, pos + SetMin(ks))
       ELSE IF pos <= Len(text) /\ text[pos] \in Head(elems).set
            THEN MatchEnd(Tail(elems), text, pos + 1)
            ELSE 0

\* pattern.exec(text): the leftmost match at or after lastIndex for a pattern
\* with the g flag, the leftmost match of the text for one without it
RegExpExec(pattern, text, lastIndex) ==
  LET from == IF pattern.global THEN lastIndex + 1 ELSE 1
      starts == {i \in from..Len(text) : MatchEnd(pattern.elems, text, i) # 0}
  IN  IF starts = {} THEN [found |-> FALSE, start |-> 0, end |-> 0]
      ELSE [found |-> TRUE, start |-> SetMin(starts),
            end |-> MatchEnd(pattern.elems, text, SetMin(starts)) - 1]

RECURSIVE ExecLoop(_, _, _)
\* while ((match = pattern.exec(text)) !== null) candidates.push(...): exec
\* sets lastIndex to the end of the match only under the g flag; a loop that
\* finds a match and leaves lastIndex where it was finds it again for ever
ExecLoop(pattern, text, lastIndex) ==
  LET m == RegExpExec(pattern, text, lastIndex)
      next == IF pattern.global THEN m.end ELSE lastIndex
      rest == ExecLoop(pattern, text, next)
  IN  IF ~m.found THEN [ends |-> TRUE, matches |-> <<>>]
      ELSE IF next = lastIndex THEN [ends |-> FALSE, matches |-> <<>>]
      ELSE [ends |-> rest.ends,
            matches |-> <<[type |-> pattern.type,
                           text |-> SubSeq(text, m.start, m.end)]>> \o rest.matches]

RECURSIVE PatternsLoop(_, _)
\* for (const pattern of ...Patterns), the three loops in a row
PatternsLoop(patterns, text) ==
  IF patterns = <<>> THEN [ends |-> TRUE, matches |-> <<>>]
  ELSE LET first == ExecLoop(Head(patterns), text, 0)
           rest == PatternsLoop(Tail(patterns), text)
       IN  IF ~first.ends THEN [ends |-> FALSE, matches |-> <<>>]
           ELSE [ends |-> rest.ends, matches |-> first.matches \o rest.matches]

extractCandidates(text) == PatternsLoop(extractorPatterns, text)

RECURSIVE Occurrences(_, _)
\* fullText.split(sub).length - 1
Occurrences(fullText, sub) ==
  IF Len(fullText) < Len(sub) THEN 0
  ELSE IF SubSeq(fullText, 1, Len(sub)) = sub
       THEN 1 + Occurrences(SubSeq(fullText, Len(sub) + 1, Len(fullText)), sub)
       ELSE Occurrences(Tail(fullText), sub)

\* the test for a first person pronoun (wo, wo men, ben ren)
HasPronoun(text) == \E k \in 1..Len(text) : text[k] \in {LikeTok, MyTok, NeedTok}

\* The candidate with the score extractMemory gives it
ScoredCandidate(c, fullText) ==
  [type |-> c.type, text |-> c.text,
   score |-> scoreExtraction([type |-> c.type, len |-> TextLength(c.text),
                              pronoun |-> HasPronoun(c.text),
                              occurrences |-> Occurrences(fullText, c.text)])]

\* c.text.toLowerCase().replace(/\s/g, '')
ToLowerCase(text) == [k \in 1..Len(text) |-> IF text[k] = "A" THEN "a" ELSE text[k]]
normalized(text) == SelectSeq(ToLowerCase(text), LAMBDA tok : tok # SpaceTok)

RECURSIVE extractorDeduplicateExact(_, _)
\* a deduplicate that compares the texts as they are
extractorDeduplicateExact(candidates, seen) ==
  IF candidates = <<>> THEN <<>>
  ELSE LET c == Head(candidates)
       IN  IF c.text \in seen THEN extractorDeduplicateExact(Tail(candidates), seen)
           ELSE <<c>> \o extractorDeduplicateExact(Tail(candidates), seen \cup {c.text})

RECURSIVE extractorDeduplicate(_, _)
\* deduplicate(candidates), seen being the Set it fills
extractorDeduplicate(candidates, seen) ==
  IF candidates = <<>> THEN <<>>
  ELSE LET c == Head(candidates)
       IN  IF normalized(c.text) \in seen THEN extractorDeduplicate(Tail(candidates), seen)
           ELSE <<c>> \o extractorDeduplicate(Tail(candidates),
                                              seen \cup {normalized(c.text)})

\* candidates.map(score).filter(c => c.score >= 0.4)
extractorFiltered(candidates, text) ==
  SelectSeq([k \in 1..Len(candidates) |-> ScoredCandidate(candidates[k], text)],
            LAMBDA c : c.score >= 4000)

\* extractMemory once the candidates are there: filtered, and what it returns
extractMemoryOf(candidates, filtered) ==
  IF ~candidates.ends THEN [ends |-> FALSE, filtered |-> <<>>, returned |-> <<>>]
  ELSE [ends |-> TRUE, filtered |-> filtered,
        returned |-> extractorDeduplicate(filtered, {})]

\* extractMemory(response, adapter) for a string response
extractMemoryText(text) ==
  extractMemoryOf(extractCandidates(text),
                  extractorFiltered(extractCandidates(text).matches, text))

ExtractMemoryCall(text) ==
  /\ \E o \in {extractMemoryText(text)} :
       last' = [op |-> "extractMemory", text |-> text, ends |-> o.ends,
                filtered |-> o.filtered, returned |-> o.returned]
  /\ UNCHANGED <<engineVars, now, tierVars, crec, writes, backend, experiment>>

\* A call depends on nothing but its argument: one call in a run
NextExtract ==
  /\ last.op # "extractMemory"
  /\ \E text \in ResponseTexts : ExtractMemoryCall(text)

SpecExtract == Init /\ [][NextExtract]_vars

-----------------------------------------------------------------------------
(* extractor.js: createMemoryEntry *)

\* The candidates extractMemory accepts and the contexts a caller passes;
\* "" is a property left out
AcceptedCandidates == {Candidate(type, text) : type \in {"persona", "core", "episodic"},
                                               text \in Texts}
EntryContexts == {[platform |-> p, namespace |-> n] :
                    p \in Platforms, n \in {"", "default", "work"}}

\* context.platform || 'unknown', context.namespace || 'default'
OrString(value, default) == IF value = "" THEN default ELSE value

\* The object literal of createMemoryEntry, were its values all computed
MemoryEntry(candidate, context, t) ==
  [ shape |-> "record", id |-> GeneratedId(t),
    platform |-> OrString(context.platform, "unknown"),
    namespace |-> OrString(context.namespace, "default"),
    type |-> OrString(candidate.type, "episodic"), text |-> candidate.text,
    supersedes |-> NoId, createdAt |-> t, updatedAt |-> t, lastUsedAt |-> t,
    expiresAt |-> t + TTLDays, lstatus |-> "active",
    sensitivity |-> "normal", masked |-> FALSE ]

\* createMemoryEntry(candidate, context): the values of the literal are
\* computed in order, and the one of expiresAt throws before there is an object
createMemoryEntry(candidate, context, t) ==
  IF createMemoryEntryThrows THEN [threw |-> TRUE, returned |-> Null]
  ELSE [threw |-> FALSE, returned |-> MemoryEntry(candidate, context, t)]

CreateMemoryEntryCall(candidate, context) ==
  /\ last' = [op |-> "createMemoryEntry", candidate |-> candidate, context |-> context,
              threw |-> createMemoryEntry(candidate, context, now).threw,
              returned |-> createMemoryEntry(candidate, context, now).returned]
  /\ UNCHANGED <<engineVars, now, tierVars, crec, writes, backend, experiment>>

\* A call depends on nothing but its arguments and the clock: one call per
\* advance of the clock
NextCreate ==
  \/ /\ last.op # "createMemoryEntry"
     /\ \E candidate \in AcceptedCandidates, context \in EntryContexts :
          CreateMemoryEntryCall(candidate, context)
  \/ Tick

SpecCreate == Init /\ [][NextCreate]_vars

-----------------------------------------------------------------------------
(* HierarchicalStorage.getStats *)

\* getStats: the size of the Map and the counts of the two file stores, added
getStats(T) ==
  [ hot |-> Cardinality(DOMAIN T.hot), warm |-> Cardinality(DOMAIN T.warm),
    cold |-> Cardinality(DOMAIN T.cold),
    total |-> Cardinality(DOMAIN T.hot) + Cardinality(DOMAIN T.warm)
                + Cardinality(DOMAIN T.cold) ]

-----------------------------------------------------------------------------
(* experiment/loop.js: ExperimentLoop.run *)

EXPERIMENT_PHASES ==
  [ HYPOTHESIS |-> "hypothesis", DESIGN |-> "design", SIMULATION |-> "simulation",
    OBSERVATION |-> "observation", ANALYSIS |-> "analysis", FEEDBACK |-> "feedback",
    COMPLETE |-> "complete" ]

MaxLoopIterations == 13   \* the largest maxIterations a caller gives

\* options.maxIterations || 10 and options.convergenceThreshold || 0.95, 0
\* being an option left out
LoopOptions ==
  {[maxIterations |-> m, convergenceThreshold |-> c] :
     m \in 0..MaxLoopIterations, c \in {0, 4000, 9999}}

LoopConfig(options) ==
  [ maxIterations |-> OrDefault(options.maxIterations, 10),
    convergenceThreshold |-> OrDefault(options.convergenceThreshold, 9500) ]

\* createExperiment(config) with no parameters given, and the call of run:
\* handler is the phase handler the last pass of the loop ran
createExperiment(cfg) ==
  [ pc |-> "running", config |-> cfg, phase |-> EXPERIMENT_PHASES.HYPOTHESIS,
    results |-> <<>>, iteration |-> 0, handler |-> "none" ]

\* The confidence runSimulation gives a result, by the iteration of the result
\* before it (0 for none): evaluateMetrics reads the output of that result,
\* whose value is 0.5 (no temperature), error 0.1 / (seed + 1) and convergence
\* min(seed / 10, 1); calculateResultScore weighs them, and v5BarrierEquation
\* with gamma 0.85 and barrier 0.5 gives the confidence (tabulated)
ResultConfidences ==
  <<5508, 4724, 4958, 5181, 5399, 5613, 5824, 6032, 6235, 6433, 6627, 6628, 6629, 6629,
    6630, 6630>>

ResultConfidence(results) ==
  ResultConfidences[(IF results = <<>> THEN 0 ELSE results[Len(results)].iteration) + 1]

RECURSIVE SumOf(_)
SumOf(values) == IF values = <<>> THEN 0 ELSE Head(values) + SumOf(Tail(values))

\* calculateVariance(values) < limit, for values and a limit in units of
\* 1/10000: n * sum of squares - square of the sum < n * n * limit
VarianceUnder(values, limit) ==
  IF values = <<>> THEN 0 < limit
  ELSE Len(values) * SumOf([k \in 1..Len(values) |-> values[k] * values[k]])
         - SumOf(values) * SumOf(values)
       < Len(values) * Len(values) * limit * One

Confidences(results) == [k \in 1..Len(results) |-> results[k].confidence]

\* results.slice(-3)
LastThree(values) == SubSeq(values, Max(1, Len(values) - 2), Len(values))

\* isConverged: at least two results, and the variance of the confidences of
\* the last three under 1 - convergenceThreshold
isConverged(e) ==
  /\ Len(e.results) >= 2
  /\ VarianceUnder(LastThree(Confidences(e.results)), One - e.config.convergenceThreshold)

\* analyzeTrend
analyzeTrend(results) ==
  IF Len(results) < 2 THEN "insufficient_data"
  ELSE IF \A k \in 1..Len(LastThree(Confidences(results))) :
            LastThree(Confidences(results))[k] > results[1].confidence
  THEN "improving"
  ELSE IF \A k \in 1..Len(LastThree(Confidences(results))) :
            LastThree(Confidences(results))[k] < results[1].confidence
  THEN "declining"
  ELSE "stable"

\* calculateAnalysisConfidence(results) >= threshold: the average times 1.1,
\* 1.0 or 0.9, compared without dividing
AnalysisConfidenceAtLeast(results, threshold) ==
  IF results = <<>> THEN 0 >= threshold
  ELSE SumOf(Confidences(results))
         * (CASE analyzeTrend(results) = "improving" -> 11
              [] analyzeTrend(results) = "stable" -> 10
              [] OTHER -> 9)
       >= threshold * Len(results) * 10

generateHypothesis(e) == [e EXCEPT !.phase = EXPERIMENT_PHASES.DESIGN]
designExperiment(e) == [e EXCEPT !.phase = EXPERIMENT_PHASES.SIMULATION]
runSimulation(e) ==
  [e EXCEPT !.results = Append(@, [iteration |-> e.iteration,
                                   confidence |-> ResultConfidence(e.results)]),
            !.phase = EXPERIMENT_PHASES.OBSERVATION]
observeResults(e) == [e EXCEPT !.phase = EXPERIMENT_PHASES.ANALYSIS]
analyzeResults(e) ==
  [e EXCEPT !.phase = IF AnalysisConfidenceAtLeast(e.results, e.config.convergenceThreshold)
                      THEN EXPERIMENT_PHASES.COMPLETE
                      ELSE EXPERIMENT_PHASES.FEEDBACK]
generateFeedback(e) == [e EXCEPT !.phase = EXPERIMENT_PHASES.DESIGN]

\* One pass of the body of the while loop: iteration++, the handler of the
\* phase (none for complete), the history entry
loopBody(e) ==
  LET e1 == [e EXCEPT !.iteration = @ + 1]
  IN  CASE e.phase = EXPERIMENT_PHASES.HYPOTHESIS ->
             [generateHypothesis(e1) EXCEPT !.handler = "generateHypothesis"]
        [] e.phase = EXPERIMENT_PHASES.DESIGN ->
             [designExperiment(e1) EXCEPT !.handler = "designExperiment"]
        [] e.phase = EXPERIMENT_PHASES.SIMULATION ->
             [runSimulation(e1) EXCEPT !.handler = "runSimulation"]
        [] e.phase = EXPERIMENT_PHASES.OBSERVATION ->
             [observeResults(e1) EXCEPT !.handler = "observeResults"]
        [] e.phase = EXPERIMENT_PHASES.ANALYSIS ->
             [analyzeResults(e1) EXCEPT !.handler = "analyzeResults"]
        [] e.phase = EXPERIMENT_PHASES.FEEDBACK ->
             [generateFeedback(e1) EXCEPT !.handler = "generateFeedback"]
        [] OTHER -> [e1 EXCEPT !.handler = "none"]

\* the condition of the while loop
loopContinues(e) == ~isConverged(e) /\ e.iteration < e.config.maxIterations

\* run(experiment) is called on a new experiment
Run(options) ==
  /\ experiment.pc = "none"
  /\ experiment' = createExperiment(LoopConfig(options))
  /\ UNCHANGED <<engineVars, now, last, tierVars, crec, writes, backend>>

LoopIteration ==
  /\ experiment.pc = "running"
  /\ loopContinues(experiment)
  /\ experiment' = loopBody(experiment)
  /\ UNCHANGED <<engineVars, now, last, tierVars, crec, writes, backend>>

\* the loop is left: the phase becomes complete if isConverged, and run returns
LoopExit ==
  /\ experiment.pc = "running"
  /\ ~loopContinues(experiment)
  /\ experiment' = [experiment EXCEPT
                      !.phase = IF isConverged(experiment)
                                THEN EXPERIMENT_PHASES.COMPLETE ELSE @,
                      !.handler = "none", !.pc = "returned"]
  /\ UNCHANGED <<engineVars, now, last, tierVars, crec, writes, backend>>

NextLoop ==
  \/ \E options \in LoopOptions : Run(options)
  \/ LoopIteration
  \/ LoopExit

\* the passes of a run follow one another without a pause
SpecLoop == Init /\ [][NextLoop]_vars /\ WF_vars(LoopIteration) /\ WF_vars(LoopExit)

-----------------------------------------------------------------------------
(* The claims of the specification, settled against the model *)

\* the active records of the scope of m whose text is at least 0.8 similar
SimilarActive(st, m) ==
  { i \in DOMAIN st :
      /\ st[i].lstatus = "active"
      /\ st[i].platform = m.platform /\ st[i].namespace = m.namespace
      /\ Jaccard(SplitWs(m.text), SplitWs(st[i].text)) >= 8000 }

\* C1: when write stores a new record while an active record of its scope is
\* at least 0.8 similar to it, exactly one prior record turns from active to
\* superseded, the new record is stored active, and its supersedes is the id
\* of that prior record.
C1_ConflictResolution ==
  [][ ( /\ last'.op = "write"
        /\ Len(last'.written) = 1
        /\ last'.written[1].id \notin DOMAIN store
        /\ SimilarActive(store, last'.written[1]) # {} )
      => LET new == last'.written[1]
             flipped == { i \in DOMAIN store :
                            /\ store[i].lstatus = "active"
                            /\ store'[i].lstatus = "superseded" }
         IN  /\ Cardinality(flipped) = 1
             /\ store'[new.id].lstatus = "active"
             /\ store'[new.id].supersedes \in flipped ]_vars

RECURSIVE SupersededChain(_, _, _)
\* the ids reached from id by following supersedes, at most fuel steps
SupersededChain(st, id, fuel) ==
  IF fuel = 0 \/ id \notin DOMAIN st THEN {}
  ELSE {id} \cup SupersededChain(st, st[id].supersedes, fuel - 1)

\* C2: in every reachable store, following supersedes from a record never
\* comes back to that record.
C2_SupersedesAcyclic ==
  \A i \in DOMAIN store :
    i \notin SupersededChain(store, store[i].supersedes, Cardinality(DOMAIN store))

\* C3: every record recall returns is active, and none of them is one that
\* write marked superseded or cleanup marked expired.
C3_OnlyActiveRecalled ==
  last.op = "recall" =>
    \A k \in 1..Len(last.recalled) :
      /\ last.recalled[k].mem.lstatus = "active"
      /\ last.recalled[k].mem.mstatus \notin {"superseded", "expired"}

\* C4: every record write persists has an activation, the v5 formula of its
\* write score, of at least the threshold of its type.
C4_WriteGateByType ==
  last.op = "write" =>
    \A k \in 1..Len(last.written) :
      v5Formula(calculateWriteScore(last.written[k]), config.gamma, config.barrier)
        >= MEMORY_TYPE_THRESHOLDS(last.written[k].type)

\* the phases up to and including the given one
PhasesThrough(phase) ==
  SubSeq(Phases, 1, CHOOSE k \in 1..Len(Phases) : Phases[k] = phase)

\* C5 (as amended): processTurn never throws; when a phase throws, exactly one
\* error is recorded, no later phase is attempted, and the results of the
\* failed phase and of the later ones stay empty; when none throws there is no
\* error and all four phases ran.
C5_TurnFailureEndsTurn ==
  last.op = "processTurn" =>
    LET r == last.result
    IN  /\ ~r.threw
        /\ r.failedPhase = "none" => (r.errors = <<>> /\ r.attempted = Phases)
        /\ r.failedPhase # "none" =>
             /\ Len(r.errors) = 1
             /\ r.attempted = PhasesThrough(r.failedPhase)
             /\ r.written = <<>>
             /\ r.failedPhase \in {"recall", "inject", "extract"} => r.extracted = <<>>
             /\ r.failedPhase \in {"recall", "inject"} => r.injected = NotInjected
             /\ r.failedPhase = "recall" => r.recalled = <<>>

\* C5 witness: a turn whose inject phase threw after recall brought records
C5_InjectFailed ==
  /\ last.op = "processTurn"
  /\ last.result.failedPhase = "inject"
  /\ last.result.recalled # <<>>

\* C5 as stated: when a phase throws, one error is recorded and every later
\* phase of the turn is still attempted.
C5_LaterPhasesAttempted ==
  last.op = "processTurn" =>
    /\ ~last.result.threw
    /\ last.result.failedPhase # "none" =>
         (Len(last.result.errors) >= 1 /\ last.result.attempted = Phases)

\* C6: a retrieveAndInject that raised returns without throwing, appends one
\* ERROR entry to the audit log, returns the request it was given and no
\* memories, and leaves the store as it was.
C6_RetrieveAndInjectFailOpen ==
  [][ (last'.op = "retrieveAndInject" /\ last'.result.raised)
      => /\ ~last'.result.threw
         /\ auditLog' = Append(auditLog, "ERROR")
         /\ last'.result.request = last'.given
         /\ last'.result.memories = <<>>
         /\ store' = store ]_vars

\* C6 witness: the call raised over a store that holds records, for a chat
\* request an injection would have changed
C6_RaisedWithRecords ==
  /\ last.op = "retrieveAndInject"
  /\ last.result.raised
  /\ last.given.kind = "chat_user"
  /\ store # EmptyStore
  /\ auditLog # <<>>

CountOfType(selected, type) ==
  Cardinality({k \in 1..Len(selected) : selected[k].mem.type = type})

WithinBudget(selected, budget) ==
  /\ CountOfType(selected, "persona") <= budget.persona
  /\ CountOfType(selected, "core") <= budget.core
  /\ CountOfType(selected, "episodic") <= budget.episodic

\* C7: what recall selects through allocateBudget, and what retrieveAndInject
\* selects through cropMemories, holds at most budget[type] records of each
\* type, a budget of 0 included.
C7_BudgetCap ==
  /\ \A i \in {x \in Inputs : x.isString} :
       WithinBudget(recall(store, i.text, config, now), config.budget)
  /\ last.op = "retrieveAndInject" => WithinBudget(last.result.memories, config.budget)

\* C8: every record recall returns, and every record retrieveAndInject
\* selects, has an activation that is a number not below recallThreshold.
C8_RecallThreshold ==
  /\ \A i \in {x \in Inputs : x.isString} :
       \A k \in 1..Len(recall(store, i.text, config, now)) :
         recall(store, i.text, config, now)[k].score >= config.recallThreshold
  /\ last.op = "retrieveAndInject" =>
       \A k \in 1..Len(last.result.memories) :
         /\ last.result.memories[k].score # NaN
         /\ last.result.memories[k].score >= config.recallThreshold

\* C9: get of a record that lies in the warm or the cold store returns it,
\* takes it out of both file stores and leaves it in the Map with
\* storage_tier hot, whether the Map held it before or not.
C9_GetPromotes ==
  [][ (last'.op = "get" /\ last'.id \in DOMAIN warmStore \cup DOMAIN coldStore)
      => /\ last'.returned # Undefined
         /\ last'.id \notin DOMAIN warmStore' \cup DOMAIN coldStore'
         /\ last'.id \in DOMAIN hotCache'
         /\ hotCache'[last'.id].storage_tier = "hot" ]_vars

\* C10: decompress of what compress made of a record with a text, at level
\* light, medium, heavy or summary, has the text the record had before; and
\* decompress of a record never compressed is that record.
C10_CompressionRoundTrip ==
  crec.op = "decompress" =>
    /\ (crec.n > 0 /\ crec.level \in 1..4 /\ crec.before # <<>>)
         => crec.rec.text = crec.before
    /\ crec.n = 0 => crec.rec = crec.input

\* C10 witness: a summary that differs from the text it was made of has been
\* decompressed
C10_SummaryRestored ==
  /\ crec.op = "decompress"
  /\ crec.n = 1
  /\ crec.level = COMPRESSION_LEVELS.SUMMARY
  /\ crec.input.compression_level = COMPRESSION_LEVELS.SUMMARY
  /\ crec.input.text # crec.before
  /\ Len(crec.before) > 1
-----------------------------------------------------------------------------
(* Tiering, expiry and the store: further claims *)

\* the texts records are handed to add with
AddedTexts == {m.text : m \in TierRecords}

\* C11: whatever migrations and compressions a record of the tiered storage
\* has gone through, decompress gives back a text it was added with: the
\* field retaining the original still holds the first text.
C11_OriginalRetained ==
  \A map \in {hotCache, warmStore, coldStore} :
    \A i \in DOMAIN map : decompress(map[i]).text \in AddedTexts

\* the records of the engine's scope that are not deleted and whose expiresAt
\* lies before t
PastExpiry(st, cfg, t) ==
  { i \in DOMAIN st :
      /\ st[i].platform = cfg.platform /\ st[i].namespace = cfg.namespace
      /\ st[i].lstatus # "deleted"
      /\ st[i].expiresAt # NoTime /\ st[i].expiresAt < t }

\* C12: after cleanup every record of the scope that was not deleted and whose
\* expiresAt has passed has lifecycle status expired, every other record is as
\* it was, and cleanup returns the number of records it flipped.
C12_ExpirySweep ==
  [][ last'.op = "cleanup"
      => /\ DOMAIN store' = DOMAIN store
         /\ \A i \in PastExpiry(store, config, now) : store'[i].lstatus = "expired"
         /\ \A i \in DOMAIN store \ PastExpiry(store, config, now) : store'[i] = store[i]
         /\ last'.cleaned =
              Cardinality({i \in PastExpiry(store, config, now) :
                             store[i].lstatus # "expired"}) ]_vars

\* the ids a write hands to the store: their files are written anew
WrittenIds(call) ==
  IF call.op = "write" THEN {call.input[k].id : k \in 1..Len(call.input)} ELSE {}

\* C13: a record that is superseded or expired keeps that status through
\* every later operation of the engine: cleanup does not turn a superseded
\* record into an expired one and a write does not supersede a record that is
\* not active.  The status is read in both fields the code keeps one in,
\* meta.lifecycle.status and meta.status.
C13_TerminalStatuses ==
  [][ \A i \in (DOMAIN store \cap DOMAIN store') \ WrittenIds(last') :
        /\ store[i].lstatus \in {"superseded", "expired"}
             => store'[i].lstatus = store[i].lstatus
        /\ store[i].mstatus \in {"superseded", "expired"}
             => store'[i].mstatus = store[i].mstatus ]_vars

\* C14: when two write calls on one scope overlap, each writing a record of
\* its own id, the store they leave is the store one of the two serial orders
\* of the calls leaves.
C14_WritesSerializable ==
  ( /\ writes.active
    /\ \A k \in Writers : writes.call[k].pc = "done"
    /\ writes.call[1].given.id # writes.call[2].given.id )
    => \/ store = WriteThenWrite(writes.base, writes.call[1].given,
                                 writes.call[2].given, config, now)
       \/ store = WriteThenWrite(writes.base, writes.call[2].given,
                                 writes.call[1].given, config, now)

\* the active records of the scope of m whose text is more than 0.8 similar
ScopedMatches(st, m) ==
  { i \in DOMAIN st :
      /\ st[i].lstatus = "active"
      /\ st[i].platform = m.platform /\ st[i].namespace = m.namespace
      /\ StoreTextSimilarity(m.text, st[i].text) > 8000 }

\* C15: under either store class, findSimilar(r) returns null when no active
\* record of r's platform and namespace is more than 0.8 similar to r, and
\* else the first such record; never a record of another scope.
C15_FindSimilarScoped ==
  last.op = "findSimilar" =>
    IF ScopedMatches(store, last.given) = {} THEN last.returned = NoId
    ELSE /\ last.returned \in ScopedMatches(store, last.given)
         /\ \A i \in ScopedMatches(store, last.given) : last.returned <= i

\* the filters handed to the tiered storage's query
TierFilters ==
  { [status |-> NoFilter, platform |-> p, namespace |-> n, type |-> NoFilter,
     tier |-> NoFilter, includeAllTiers |-> a] :
      p \in {NoFilter, "deepseek"}, n \in {NoFilter, "work"}, a \in BOOLEAN }

\* the record satisfies every filter that is given
SatisfiesAll(memory, filters) ==
  /\ filters.status # NoFilter => memory.lstatus = filters.status
  /\ filters.platform # NoFilter => memory.platform = filters.platform
  /\ filters.namespace # NoFilter => memory.namespace = filters.namespace
  /\ filters.type # NoFilter => memory.type = filters.type

\* the records the tiered storage holds: of each id the cached one, else the
\* one of the warm store, else the one of the cold store
HeldIn(T) ==
  {T.hot[i] : i \in DOMAIN T.hot}
    \cup {T.warm[i] : i \in DOMAIN T.warm \ DOMAIN T.hot}
    \cup {T.cold[i] : i \in DOMAIN T.cold \ (DOMAIN T.hot \cup DOMAIN T.warm)}

\* C16: query(filters) returns exactly the stored records that satisfy all
\* the filters given, from the file stores and from the tiered storage alike.
C16_QueryExact ==
  \A f \in TierFilters :
    /\ {StoreQuery(warmStore, f)[k] : k \in 1..Len(StoreQuery(warmStore, f))}
         = {warmStore[i] : i \in {j \in DOMAIN warmStore : SatisfiesAll(warmStore[j], f)}}
    /\ query(CurrentTiers, f) = {m \in HeldIn(CurrentTiers) : SatisfiesAll(m, f)}

LevelOfTier(tier) ==
  CASE tier = "hot"  -> COMPRESSION_LEVELS.NONE
    [] tier = "warm" -> COMPRESSION_LEVELS.MEDIUM
    [] OTHER         -> COMPRESSION_LEVELS.SUMMARY

\* the record of that id is kept in the place of the tier, stamped with the
\* tier and, when it has a text, compressed at the tier's level
PlacedByTier(T, id, tier) ==
  LET place == CASE tier = "hot" -> T.hot [] tier = "warm" -> T.warm [] OTHER -> T.cold
  IN  /\ id \in DOMAIN place
      /\ place[id].storage_tier = tier
      /\ place[id].text # <<>> => place[id].compression_level = LevelOfTier(tier)

\* C18: after add(r) or update(r) the record is kept in the tier of its age,
\* stamped with that tier and compressed at the tier's level (none, medium,
\* summary); a record stamped hot is never compressed.
C18_PlacedAndCompressedByTier ==
  /\ [](\A map \in {hotCache, warmStore, coldStore} : \A i \in DOMAIN map :
          map[i].storage_tier = "hot" => ~map[i].compressed)
  /\ [][ /\ last'.op = "add" =>
              PlacedByTier(Tiers(hotCache', warmStore', coldStore'), last'.id,
                           determineTier(hotCache'[last'.id], now))
         /\ last'.op = "update" =>
              PlacedByTier(Tiers(hotCache', warmStore', coldStore'), last'.id,
                           determineTier(last'.given, now)) ]_vars

\* C19: when runCompressionCycle has run, every record the storage holds, in
\* the Map or in a file store, is stamped with the tier of its present age,
\* and a record whose stamp was right already is where it was.
C19_CycleRetiersAll ==
  [][ last'.op = "runCompressionCycle" =>
        /\ \A m \in HeldIn(Tiers(hotCache', warmStore', coldStore')) :
              m.storage_tier = determineTier(m, now)
        /\ \A m \in HeldIn(CurrentTiers) :
              m.storage_tier = determineTier(m, now) =>
                m \in HeldIn(Tiers(hotCache', warmStore', coldStore')) ]_vars

\* C20: add(r) returns an id, a generated one when r has none, and get of
\* that id then returns r under that id; after update(r) get returns r as
\* given, with nothing of the record it replaced; get of an id that has no
\* record returns null.
C20_ReadYourWrites ==
  [][ /\ last'.op = "add" =>
           /\ ~last'.rejected
           /\ last'.returned # NoId
           /\ last'.given.id # NoId => last'.returned = last'.given.id
           /\ StoreGet(store', last'.returned) = [last'.given EXCEPT !.id = last'.returned]
      /\ last'.op = "update" => StoreGet(store', last'.given.id) = last'.given
      /\ (last'.op = "get" /\ last'.id \notin DOMAIN store) => last'.returned = Null ]_vars


\* C21: deletion is logical.  No call removes a record from the store: after
\* delete(id) the record of that id is still stored, with a status that is
\* not active, and the expiry sweep keeps every record it marks.
C21_DeletionIsLogical ==
  [][ /\ DOMAIN store \subseteq DOMAIN store'
      /\ last'.op = "delete" =>
           /\ last'.id \in DOMAIN store'
           /\ \/ store'[last'.id].lstatus # "active"
              \/ store'[last'.id].mstatus \notin {"undefined", "active"} ]_vars

\* C22: ids are unique and never change.  Every record is stored under its
\* own id, an add leaves every record that was stored as it was unless it is
\* the record being added, and no call changes the id of a stored record.
C22_IdsUniqueImmutable ==
  [][ /\ \A i \in DOMAIN store' : store'[i].id = i
      /\ (last'.op = "add" /\ ~last'.rejected) =>
           \A i \in DOMAIN store :
             \/ store'[i] = store[i]
             \/ store[i] = [last'.given EXCEPT !.id = last'.returned]
      /\ \A i \in DOMAIN store \cap DOMAIN store' : store'[i].id = store[i].id ]_vars

\* C23: in the list retrieveMemories returns, of any two records the one
\* that comes first has the higher score when the scores are more than 0.1
\* apart, else the higher type priority, else the later time of use.
C23_RetrieverOrder ==
  last.op = "retrieveMemories" =>
    \A i, j \in 1..Len(last.returned) :
      i < j =>
        LET a == last.returned[i]
            b == last.returned[j]
            apart == a.recallScore - b.recallScore > 1000
                       \/ b.recallScore - a.recallScore > 1000
        IN  /\ apart => a.recallScore > b.recallScore
            /\ ~apart => typePriority(a.mem.type) >= typePriority(b.mem.type)
            /\ (~apart /\ typePriority(a.mem.type) = typePriority(b.mem.type))
                 => a.mem.lastUsedAt >= b.mem.lastUsedAt

\* the items of a list
Range(s) == {s[k] : k \in 1..Len(s)}

\* the types of the sections, in their order
SectionOrder == <<"pinned", "persona", "core", "episodic">>

\* the position of a type in the order of the sections
SectionRank(type) == CHOOSE k \in 1..4 : SectionOrder[k] = type

\* the lines of a block between its two header lines and its rule
BlockBody(block) == SubSeq(block, 3, Len(block) - 1)

\* the block of lines is well formed for the records: header first, rule
\* last, a label for each type that has a record and for no other, labels in
\* the order of the types, and under the label of a type the texts of the
\* records of that type, each once, in the order of the records
WellFormedBlock(block, memories) ==
  /\ Len(block) = 3 + Len(memories) + Cardinality({m.type : m \in Range(memories)})
  /\ block[1].kind = "header"
  /\ block[2].kind = "meta"
  /\ block[Len(block)].kind = "rule"
  /\ \A k \in 1..Len(BlockBody(block)) : BlockBody(block)[k].kind \in {"label", "item"}
  /\ \A type \in Types :
       Cardinality({k \in 1..Len(BlockBody(block)) :
                      BlockBody(block)[k] = Line("label", type, {})})
         = IF \E m \in Range(memories) : m.type = type THEN 1 ELSE 0
  /\ \A j, k \in 1..Len(BlockBody(block)) :
       j < k => SectionRank(BlockBody(block)[j].type) <= SectionRank(BlockBody(block)[k].type)
  /\ \A type \in Types :
       SelectSeq(BlockBody(block), LAMBDA l : l.kind = "item" /\ l.type = type)
         = [k \in 1..Len(SelectSeq(memories, LAMBDA m : m.type = type)) |->
              Line("item", type, SelectSeq(memories, LAMBDA m : m.type = type)[k].text)]
  /\ \A k \in 1..Len(BlockBody(block)) :
       BlockBody(block)[k].kind = "item" =>
         \E j \in 1..(k - 1) : BlockBody(block)[j] = Line("label", BlockBody(block)[k].type, {})

\* the same of the parts engine.buildContext gives: header, a section for
\* each type that has a record, in the order of the types, with the ids of
\* the records of that type, and the rule
WellFormedParts(parts, memories) ==
  /\ Len(parts) = 2 + Cardinality({m.type : m \in Range(memories)})
  /\ parts[1].part = "header"
  /\ parts[Len(parts)].part = "rule"
  /\ \A k \in 2..(Len(parts) - 1) :
       /\ parts[k].part = "section"
       /\ parts[k].ids = [j \in 1..Len(SelectSeq(memories, LAMBDA m : m.type = parts[k].type)) |->
                            SelectSeq(memories, LAMBDA m : m.type = parts[k].type)[j].id]
       /\ parts[k].ids # <<>>
       /\ k > 2 => SectionRank(parts[k - 1].type) < SectionRank(parts[k].type)

\* C24: for selected records, the block injectMemory puts before the input
\* and the block engine.buildContext renders have the header, a labelled
\* section for each type that has records and no other, in the order pinned,
\* persona, core, episodic, every record's text once under its type, and the
\* rule at the end; with no record injectMemory returns the input as it is.
C24_ContextBlockStructure ==
  /\ (last.op = "injectMemory" /\ last.given # <<>>) =>
       /\ WellFormedBlock(SubSeq(last.returned.injected, 1, Len(last.returned.injected) - 2),
                          last.given)
       /\ last.returned.memories = Len(last.given)
  /\ (last.op = "injectMemory" /\ last.given = <<>>) =>
       last.returned.injected = last.returned.original
  /\ (last.op = "buildContext" /\ last.given # <<>>) =>
       WellFormedParts(last.returned, last.given)

\* a block was rendered for records of all four types
C24_AllFourSections ==
  /\ last.op = "injectMemory"
  /\ {m.type : m \in Range(last.given)} = Types
  /\ Len(last.returned.injected) = 3 + Len(last.given) + 4 + 2

\* C25: extractAndSave of a response the adapter can parse.  With an adapter
\* set it does not throw: either it logs one FILTERED entry and leaves the
\* store as it is, or it adds one new active record and logs WRITE last.
\* With no adapter it throws and leaves the store and the log as they are.
C25_ExtractAndSaveOutcome ==
  [][ (last'.op = "extractAndSave" /\ last'.at # "parseResponse") =>
        IF platformAdapter = NoAdapter
        THEN last'.threw /\ store' = store /\ auditLog' = auditLog
        ELSE /\ ~last'.threw
             /\ \/ store' = store /\ auditLog' = Append(auditLog, "FILTERED")
                \/ /\ Cardinality(DOMAIN store' \ DOMAIN store) = 1
                   /\ \A i \in DOMAIN store' \ DOMAIN store : store'[i].lstatus = "active"
                   /\ Len(auditLog') > Len(auditLog)
                   /\ auditLog'[Len(auditLog')] = "WRITE" ]_vars

\* C26: every failure the engine catches is audited.  A turn in which a phase
\* threw, and a retrieveAndInject that raised, each leave the audit log
\* longer than it was.
C26_CaughtFailuresAudited ==
  [][ /\ (last'.op = "processTurn" /\ last'.result.failedPhase # "none")
           => Len(auditLog') > Len(auditLog)
      /\ (last'.op = "retrieveAndInject" /\ last'.result.raised)
           => Len(auditLog') > Len(auditLog) ]_vars

\* the numbers of the grid from 0 to 1
UnitInputs == {v \in ScorerInputs : v.kind = "number" /\ v.n >= 0 /\ v.n <= One}

\* C27: for an input in [0,1], a gamma above 0 and any barrier the
\* activation lies in [0,1], is below the activation of every larger input
\* in [0,1], and is 0.5 when the input is the barrier.
C27_ActivationRangeAndShape ==
  (last.op = "v5Formula" /\ last.input \in UnitInputs /\ last.gamma > 0) =>
    /\ last.returned.kind = "number"
    /\ last.returned.n >= 0 /\ last.returned.n <= One
    /\ \A y \in UnitInputs :
         last.input.n < y.n =>
           last.returned.n < v5FormulaExact(y, last.gamma, last.barrier).n
    /\ last.input.n = last.barrier => last.returned.n = 5000

\* Math.max(0, Math.min(1, x)) of a number
Clamped(value) == JSNumber(Max(0, Min(One, value.n)))

\* C28: for every gamma and barrier the activation of a number is the
\* activation of that number clamped to [0,1]: that of 0 for a number below
\* 0, that of 1 for a number above 1.
C28_InputClamping ==
  (last.op = "v5Formula" /\ last.input.kind = "number") =>
    /\ last.returned = v5FormulaExact(Clamped(last.input), last.gamma, last.barrier)
    /\ last.input.n < 0 => last.returned = v5FormulaExact(JSNumber(0), last.gamma, last.barrier)
    /\ last.input.n > One => last.returned = v5FormulaExact(JSNumber(One), last.gamma, last.barrier)

\* the activation of -5 was computed, with a gamma and a barrier for which
\* the activations of 0 and 1 differ
C28_FarBelowZero ==
  /\ last.op = "v5Formula"
  /\ last.input = JSNumber(-50000)
  /\ last.returned = v5FormulaExact(JSNumber(0), last.gamma, last.barrier)
  /\ last.returned # v5FormulaExact(JSNumber(One), last.gamma, last.barrier)

\* C29: gamma is clamped.  For every input and barrier a gamma above 2 gives
\* what gamma = 2 gives, a gamma below 0 gives what gamma = 0.1 gives, and
\* gamma = 0 gives 0.5.
C29_GammaClamping ==
  (last.op = "v5Formula" /\ last.input.kind = "number") =>
    /\ last.gamma > 20000 =>
         last.returned = v5FormulaExact(last.input, 20000, last.barrier)
    /\ last.gamma < 0 =>
         last.returned = v5FormulaExact(last.input, 1000, last.barrier)
    /\ last.gamma = 0 => last.returned = JSNumber(5000)

\* C30: an input that is null, undefined or NaN gives exactly 0.
C30_EmptyInputGivesZero ==
  (last.op = "v5Formula" /\ last.input \in {JSNull, JSUndefined, JSNaN}
     /\ last.gamma = 8500 /\ last.barrier = 5000) =>
    last.returned = JSNumber(0)

\* C31: semanticRetrieve without an embedding service returns what
\* retrieveMemories returns, and with any embedding service (left out, or
\* present and failing) it returns a list and does not raise.
C31_SemanticDegrades ==
  last.op = "semanticRetrieve" =>
    /\ ~last.threw
    /\ last.embeddingService = "absent" =>
         last.returned \in retrieveMemories(last.input, last.memories, now)

\* A pattern of extractCandidates matches somewhere in the text
SomePatternMatches(text) ==
  \E k \in 1..Len(extractorPatterns) : RegExpExec(extractorPatterns[k], text, 0).found

\* C32: for every response text extractMemory ends and returns a list, texts
\* that match a persona, core or episodic pattern included, and the list is
\* empty when no pattern matches.
C32_ExtractionTotal ==
  last.op = "extractMemory" =>
    /\ last.ends
    /\ ~SomePatternMatches(last.text) => last.returned = <<>>

\* the index in the filtered candidates of the first one whose text is equal
\* to this text after lower-casing and whitespace removal
FirstOfGroup(filtered, text) ==
  SetMin({k \in 1..Len(filtered) : normalized(filtered[k].text) = normalized(text)})

\* C33: the list extractMemory returns holds no two candidates whose texts are
\* equal after lower-casing and whitespace removal, holds of each group of
\* such candidates the first in extraction order, and holds only candidates
\* with score >= 0.4.
C33_ExtractionDeduplicated ==
  (last.op = "extractMemory" /\ last.ends) =>
    /\ \A i, j \in 1..Len(last.returned) :
         i < j => normalized(last.returned[i].text) # normalized(last.returned[j].text)
    /\ \A k \in 1..Len(last.filtered) :
         \E i \in 1..Len(last.returned) :
           last.returned[i] = last.filtered[FirstOfGroup(last.filtered, last.filtered[k].text)]
    /\ \A i \in 1..Len(last.returned) :
         /\ last.returned[i].score >= 4000
         /\ \E k \in 1..Len(last.filtered) : last.returned[i] = last.filtered[k]
    /\ \A i, j \in 1..Len(last.returned) :
         i < j =>
           FirstOfGroup(last.filtered, last.returned[i].text)
             < FirstOfGroup(last.filtered, last.returned[j].text)

\* extractMemory returned, and dropped a candidate whose text differs from the
\* kept one's only by case or whitespace
C33_CaseVariantDropped ==
  /\ last.op = "extractMemory" /\ last.ends
  /\ \E k \in 1..Len(last.filtered), i \in 1..Len(last.returned) :
       /\ last.filtered[k].text # last.returned[i].text
       /\ normalized(last.filtered[k].text) = normalized(last.returned[i].text)
       /\ \A j \in 1..Len(last.returned) : last.returned[j].text # last.filtered[k].text

\* C34: for every accepted candidate and context createMemoryEntry returns,
\* without throwing, a record with a generated id, createdAt = updatedAt =
\* lastUsedAt = the current time, expiresAt 30 days later, status active,
\* supersedes null, and the platform and namespace of the context.
C34_CanonicalRecord ==
  last.op = "createMemoryEntry" =>
    /\ ~last.threw
    /\ last.returned.id # NoId
    /\ last.returned.createdAt = now
    /\ last.returned.updatedAt = now
    /\ last.returned.lastUsedAt = now
    /\ last.returned.expiresAt = now + 30
    /\ last.returned.lstatus = "active"
    /\ last.returned.supersedes = NoId
    /\ last.context.platform # "" => last.returned.platform = last.context.platform
    /\ last.context.namespace # "" => last.returned.namespace = last.context.namespace

\* The dimensions extractCandidates gives a candidate of a type
DimensionsOf(type) ==
  CASE type = "persona" -> ExtractedPersona
    [] type = "core" -> ExtractedCore
    [] OTHER -> ExtractedEpisodic

\* 0.4 confidence + 0.3 importance + 0.2 platformWeight + 0.1 freshness of the
\* dimensions of a candidate
CandidateWriteScore(c) ==
  calculateWriteScore([confidence |-> DimensionsOf(c.type).c,
                       importance |-> DimensionsOf(c.type).i])

\* C35: in processTurn every extracted candidate whose write score is at least
\* writeThreshold is added to the store and is in result.written, those under
\* it are skipped, and the write phase raises no error.
C35_TurnWritesExtracted ==
  (last.op = "processTurn" /\ last.result.extracted # <<>>) =>
    LET r == last.result
    IN  /\ r.failedPhase # "write"
        /\ \A k \in 1..Len(r.extracted) :
             IF CandidateWriteScore(r.extracted[k]) >= config.writeThreshold
             THEN /\ \E j \in 1..Len(r.written) :
                       /\ r.written[j].text = r.extracted[k].text
                       /\ r.written[j].type = r.extracted[k].type
                  /\ \E id \in DOMAIN store :
                       /\ store[id].text = r.extracted[k].text
                       /\ store[id].type = r.extracted[k].type
             ELSE \A j \in 1..Len(r.written) : r.written[j].text # r.extracted[k].text

RECURSIVE ReachesRoot(_, _, _)
\* following supersedes from id reaches a record with supersedes null within
\* n steps
ReachesRoot(st, id, n) ==
  /\ id \in DOMAIN st
  /\ \/ st[id].supersedes = NoId
     \/ n > 0 /\ ReachesRoot(st, st[id].supersedes, n - 1)

\* C36: in every reachable store each supersedes that is not null is the id of
\* a record the store holds, and following supersedes from any record reaches
\* a record with supersedes null.
C36_ChainIntegrity ==
  \A id \in DOMAIN store :
    /\ store[id].supersedes # NoId => store[id].supersedes \in DOMAIN store
    /\ ReachesRoot(store, id, Cardinality(DOMAIN store))

\* The active records of the engine's scope
ScopePool == StoreQuery(store, Filters("active", config.platform, config.namespace))

\* every pinned record of the pool whose score is a number not under the
\* recall threshold is in the selection, ahead of every record of another type
PinnedKept(pool, selected) ==
  \A k \in 1..Len(pool) :
    (pool[k].mem.type = "pinned" /\ pool[k].score # NaN
       /\ pool[k].score >= config.recallThreshold) =>
      \E j \in 1..Len(selected) :
        /\ selected[j].mem.id = pool[k].mem.id
        /\ \A h \in 1..(j - 1) : selected[h].mem.type = "pinned"

\* C37: budgeting never drops a pinned record: an active pinned record of the
\* pool whose score meets the recall threshold is in what recall selects
\* through allocateBudget and in what retrieveAndInject selects through
\* cropMemories, ahead of the persona, core and episodic records.
C37_PinnedNeverDropped ==
  \A i \in {x \in Inputs : x.isString} :
    /\ PinnedKept(ScoreForRecall(ScopePool, i.text, config, now),
                  recall(store, i.text, config, now))
    /\ PinnedKept(ScoreForInject(ScopePool, i, config, now),
                  cropMemories(SortDesc(ScoreForInject(ScopePool, i, config, now)),
                               config.budget))

\* C38: with writes executed one at a time, no two active records of one
\* platform and namespace have a text similarity above 0.8.
C38_NoActiveNearDuplicates ==
  \A i, j \in DOMAIN store :
    ( /\ i # j
      /\ store[i].lstatus = "active" /\ store[j].lstatus = "active"
      /\ store[i].platform = store[j].platform
      /\ store[i].namespace = store[j].namespace )
    => StoreTextSimilarity(store[i].text, store[j].text) <= 8000

\* the ids of the records the tiered storage holds anywhere
StoredIds(T) == DOMAIN T.hot \cup DOMAIN T.warm \cup DOMAIN T.cold

\* the number of the places (Map, warm store, cold store) that hold the id
PlacesOf(T, id) ==
  Cardinality({p \in {"hot", "warm", "cold"} : id \in DOMAIN T[p]})

\* C39: add, get and runCompressionCycle lose no record: every id stored
\* before is stored after, get returns a record for it, it is held in exactly
\* one of the Map, the warm store and the cold store, and the total of
\* getStats is the number of the stored records.
C39_TieringLosesNothing ==
  [][ last'.op \in {"add", "get", "runCompressionCycle"} =>
        /\ StoredIds(CurrentTiers) \subseteq StoredIds(Tiers(hotCache', warmStore', coldStore'))
        /\ \A id \in StoredIds(Tiers(hotCache', warmStore', coldStore')) :
             /\ get(Tiers(hotCache', warmStore', coldStore'), id, now').returned # Undefined
             /\ PlacesOf(Tiers(hotCache', warmStore', coldStore'), id) = 1
        /\ getStats(Tiers(hotCache', warmStore', coldStore')).total
             = Cardinality(StoredIds(Tiers(hotCache', warmStore', coldStore'))) ]_vars

\* the phase changes of the cycle hypothesis, design, simulation, observation,
\* analysis, then feedback and design again, or complete
PhasePath(from, to) ==
  <<from, to>> \in { <<"hypothesis", "design">>, <<"design", "simulation">>,
                     <<"simulation", "observation">>, <<"observation", "analysis">>,
                     <<"analysis", "feedback">>, <<"analysis", "complete">>,
                     <<"feedback", "design">> }

\* C40: run ends, with iteration <= maxIterations; the phase changes only
\* along hypothesis, design, simulation, observation, analysis and then
\* feedback and design, or complete; no handler runs once the phase is
\* complete; and run returns with phase complete whenever isConverged holds
\* as the loop is left.
C40_LoopTerminatesOnPath ==
  /\ [](experiment.pc # "none" => experiment.iteration <= experiment.config.maxIterations)
  /\ [][ experiment.pc = "running" =>
           /\ experiment'.phase # experiment.phase =>
                PhasePath(experiment.phase, experiment'.phase)
           /\ experiment.phase = "complete" => experiment'.handler = "none" ]_vars
  /\ [](experiment.pc = "returned" /\ isConverged(experiment)
          => experiment.phase = "complete")
  /\ (experiment.pc = "running" ~> experiment.pc = "returned")
====
